---- MODULE Spec2Model ----
(***************************************************************************)
(* The API binding subsystem of kcp: the controller harness (work queue,   *)
(* workers, Start) of the APIBinding controller and of the extra           *)
(* annotation controller, the event handlers that map cache events to      *)
(* binding keys, and the two-tier lookups.                                 *)
(*                                                                         *)
(* A controller instance is one of the two controllers (variable ctrl,     *)
(* fixed at construction); both share the shape of Start, startWorker and  *)
(* processNextWorkItem and differ in process and in the requeue branch.    *)
(***************************************************************************)
EXTENDS Integers, Sequences, FiniteSets, TLC

VARIABLES
    ctrl,          \* which controller this instance is
    ctxDone,       \* the root context has been cancelled
    startPc,       \* Start: "init", "blocked" (at <-ctx.Done()), "returned"
    queue,         \* the controller's work queue (record, see NewQueue)
    pc,            \* worker -> "off" | "until" | "get" | "process" | "done" | "exited"
    key,           \* worker -> the key it obtained from Get, or NoKey
    trace,         \* worker -> the calls process made for that key, each with
                   \* its outcome, then what process returned
    calls,         \* worker -> the queue calls made for that key after Get
    bindingCache,  \* the APIBinding informer's indexer
    localExports,  \* the local APIExport informer's indexer
    globalExports, \* the global (cross-shard) APIExport informer's indexer
    localSchemas,  \* the local APIResourceSchema lister
    globalSchemas, \* the global APIResourceSchema lister
    deletedCRDTracker, \* names of bound CRDs seen deleted
    hlog,          \* what the most recent step recorded: for a handler that
                   \* has ended, its name and event, then the accesses it
                   \* made, in order; while a handler is on its way, the
                   \* listener that runs it; for a lookup or a process, the
                   \* call and what it returned
    panicked,      \* an event handler panicked (the process is gone)
    shards,        \* what listShards returns: the virtualWorkspaceURL of each
                   \* shard, in the order listed
    slice,         \* the APIExportEndpointSlice under reconcile: its status
    annExport,     \* the export the annotation sync reads, as the API
                   \* server stores it
    annExportLister, \* that export as the local export informer holds it
    annBinding,    \* the binding the annotation sync patches, as the API
                   \* server stores it: its annotations and the rest of it
    annLister,     \* that binding as the binding informer's lister
                   \* returns it
    apiBindings,     \* binding -> its status as the API server stores it
    bindingInformer, \* binding -> its status as the binding informer shows it
    boundCRDs,       \* the resource definitions stored in system:bound-crds
    crdInformer,     \* the resource definitions the CRD informer shows
    watchEvents,     \* informer -> the watch events the API server has
                     \* sent and the informer has not applied yet, in
                     \* order
    inflight,        \* binding -> where the process call running for it
                     \* stands: Idle, or what it has read and done so far
                     \* and the access it makes next
    passes,          \* the process calls the workers may still begin, in a
                     \* specification that bounds them
    lastPass,        \* binding -> what the API server stored when the last
                     \* process call for it returned, in a specification
                     \* that keeps it
    notifications,   \* listener -> the events its informer has stored and
                     \* handed to it, in order, for which it has not yet
                     \* called the handler
    handlers,        \* listener -> the handler it runs: NoHandler, or the
                     \* event, the accesses the handler has made and those
                     \* it has still to make
    handlerEvents    \* the events the informers may still deliver in a
                     \* specification of the handlers on their own, or the
                     \* changes that may still come from outside

vars == <<ctrl, ctxDone, startPc, queue, pc, key, trace, calls,
          bindingCache, localExports, globalExports, localSchemas,
          globalSchemas, deletedCRDTracker, hlog, panicked, shards, slice,
          annExport, annExportLister, annBinding, annLister,
          apiBindings, bindingInformer, boundCRDs, crdInformer, watchEvents,
          inflight, passes, lastPass, notifications, handlers, handlerEvents>>

workerVars == <<pc, key, trace, calls>>
handlerVars == <<notifications, handlers, handlerEvents>>
cacheVars == <<bindingCache, localExports, globalExports, localSchemas, globalSchemas>>
\* the objects the reconcilers read and write
annotationVars == <<annExport, annExportLister, annBinding, annLister>>
reconcileVars == <<apiBindings, bindingInformer, boundCRDs, crdInformer,
                   watchEvents, inflight, passes, lastPass>>
objectVars == <<shards, slice, annotationVars, reconcileVars>>

-----------------------------------------------------------------------------
(* Bounds and universe *)

\* the numThreads Start is called with is drawn from 1..NumThreads
NumThreads == 2

Workers == 1..NumThreads

APIBindingController == "kcp-apibinding"
ExtraAnnotationController == "kcp-api-export-extra-annotation-sync"
Controllers == {APIBindingController, ExtraAnnotationController}

SystemBoundCRDsClusterName == "system:bound-crds"

NoKey == <<>>

-----------------------------------------------------------------------------
(* Objects.  A logical-cluster path is the sequence of its segments ("root:a"
   is <<"root", "a">>, the empty path is <<>>); a queue or cache key
   cluster|name is the pair <<cluster, name>>. *)

\* logicalcluster.Name.Path()
ClusterPath(clusterName) == <<clusterName>>

\* logicalcluster.Path.Join(name)
Join(path, name) == Append(path, name)

\* kcpcache.ToClusterAwareKey(cluster, "", name)
ToClusterAwareKey(clusterName, name) == <<clusterName, name>>

APIBindingObj(c, n, exportPath, exportName) ==
    [kind |-> "APIBinding", cluster |-> c, name |-> n,
     exportPath |-> exportPath, exportName |-> exportName]

APIExportObj(c, n, pathAnnotation, schemas) ==
    [kind |-> "APIExport", cluster |-> c, name |-> n,
     pathAnnotation |-> pathAnnotation, latestResourceSchemas |-> schemas]

APIResourceSchemaObj(c, n) ==
    [kind |-> "APIResourceSchema", cluster |-> c, name |-> n]

\* schemaCluster / schemaName are the two schema annotations, "" when absent
CRDObj(c, n, schemaCluster, schemaName) ==
    [kind |-> "CustomResourceDefinition", cluster |-> c, name |-> n,
     schemaCluster |-> schemaCluster, schemaName |-> schemaName]

\* cache.DeletedFinalStateUnknown{Key, Obj}
Tombstone(obj) ==
    [kind |-> "DeletedFinalStateUnknown",
     key |-> ToClusterAwareKey(obj.cluster, obj.name), obj |-> obj]

IsTombstone(obj) == obj.kind = "DeletedFinalStateUnknown"

\* The universe the events and caches draw from.
\* b1 references export e of c1 by the export's public path root:a,
\* b2 references it by the export's logical-cluster name,
\* b3 lives in c1 itself and references export f with an empty path.
B1 == APIBindingObj("c2", "b1", <<"root", "a">>, "e")
B2 == APIBindingObj("c2", "b2", <<"c1">>, "e")
B3 == APIBindingObj("c1", "b3", <<>>, "f")
Bindings == {B1, B2, B3}
\* the bindings the worker harness is exercised with
HarnessBindings == {B1, B2}

E1 == APIExportObj("c1", "e", <<"root", "a">>, {"s"})
E2 == APIExportObj("c1", "f", <<>>, {"s"})
Exports == {E1, E2}

S1 == APIResourceSchemaObj("c1", "s")
Schemas == {S1}

\* n1: a bound CRD of schema c1|s; n2: a definition in system:bound-crds
\* without the schema-name annotation; n3: a definition of another cluster
N1 == CRDObj(SystemBoundCRDsClusterName, "n1", "c1", "s")
N2 == CRDObj(SystemBoundCRDsClusterName, "n2", "c1", "")
N3 == CRDObj("c2", "n3", "c1", "s")
\* n4: a definition in system:bound-crds without the schema-cluster annotation
N4 == CRDObj(SystemBoundCRDsClusterName, "n4", "", "s")
CRDs == {N1, N2, N3, N4}

Keys == {ToClusterAwareKey(b.cluster, b.name) : b \in Bindings}

-----------------------------------------------------------------------------
(* The keyed work queue (workqueue.RateLimitingInterface).  items is the
   FIFO of keys ready for Get, dirty the keys that need processing,
   processing the keys in flight, waitingForAdd the keys a rate-limited
   add holds back.  The rate limiter's delays and failure counts are
   abstracted: a rate-limited add lands at some later moment. *)

NewQueue ==
    [items |-> <<>>, dirty |-> {}, processing |-> {},
     shuttingDown |-> FALSE, waitingForAdd |-> {}]

Add(q, k) ==
    IF q.shuttingDown \/ k \in q.dirty THEN q
    ELSE IF k \in q.processing
         THEN [q EXCEPT !.dirty = @ \cup {k}]
         ELSE [q EXCEPT !.dirty = @ \cup {k}, !.items = Append(@, k)]

AddRateLimited(q, k) ==
    IF q.shuttingDown THEN q
    ELSE [q EXCEPT !.waitingForAdd = @ \cup {k}]

Forget(q, k) == q

Done(q, k) ==
    IF k \in q.dirty
    THEN [q EXCEPT !.processing = @ \ {k}, !.items = Append(@, k)]
    ELSE [q EXCEPT !.processing = @ \ {k}]

\* Get blocks until an item is ready or the queue is shutting down
GetReady(q) == q.items # <<>> \/ q.shuttingDown
\* Get returns (nil, true) only when nothing is left to hand out
GetQuit(q) == q.items = <<>>
GetItem(q) == Head(q.items)
GetPop(q) ==
    [q EXCEPT !.items = Tail(@),
              !.processing = @ \cup {Head(q.items)},
              !.dirty = @ \ {Head(q.items)}]

ShutDown(q) == [q EXCEPT !.shuttingDown = TRUE, !.waitingForAdd = {}]

\* Add called for each key of a sequence, in order
RECURSIVE AddAll(_, _)
AddAll(q, ks) == IF ks = <<>> THEN q ELSE AddAll(Add(q, Head(ks)), Tail(ks))

-----------------------------------------------------------------------------
(* Keys and indexes *)

\* kcpcache.DeletionHandlingMetaClusterNamespaceKeyFunc
DeletionHandlingMetaClusterNamespaceKeyFunc(obj) ==
    IF IsTombstone(obj) THEN obj.key
    ELSE ToClusterAwareKey(obj.cluster, obj.name)

\* the lister of the binding informer: Cluster(clusterName).Get(name);
\* fault injects an error other than NotFound
ListerGet(k, fault) ==
    IF fault THEN "Error"
    ELSE IF \E b \in bindingCache : ToClusterAwareKey(b.cluster, b.name) = k
         THEN "ok" ELSE "NotFound"

-----------------------------------------------------------------------------
(* process: each controller's per-key work.  What process reads or calls is
   an input: in.getFault makes the cache read of the binding fail with an
   error other than NotFound, in.reconcile is what reconcile returns,
   in.commitErr makes commit fail, in.hasExportRef says the binding names an
   export, in.exportLookup is what getAPIExport returns, in.patch is what
   syncExtraAnnotationPatch returns, in.patchErr makes the Patch call fail.  The result carries the calls made,
   in order, each with its outcome. *)

Outcome(failed) == IF failed THEN "Error" ELSE "ok"

APIBindingProcessInputs ==
    [getFault : BOOLEAN,
     reconcile : [requeue : BOOLEAN, err : BOOLEAN],
     commitErr : BOOLEAN]

\* commit skipped when reconcile returned an error
apibinding_process_NoCommitAfterError(k, in) ==
    LET got == ListerGet(k, in.getFault) IN
    IF got # "ok"
    THEN [requeue |-> FALSE, err |-> FALSE, trace |-> << <<"Get", got>> >>]
    ELSE IF in.reconcile.err
    THEN [requeue |-> in.reconcile.requeue, err |-> TRUE,
          trace |-> << <<"Get", "ok">>, <<"reconcile", "Error">> >>]
    ELSE [requeue |-> in.reconcile.requeue,
          err |-> in.commitErr,
          trace |-> << <<"Get", "ok">>,
                       <<"reconcile", "ok">>,
                       <<"commit", Outcome(in.commitErr)>> >>]

\* the error of commit dropped
apibinding_process_CommitErrDropped(k, in) ==
    LET got == ListerGet(k, in.getFault) IN
    IF got # "ok"
    THEN [requeue |-> FALSE, err |-> FALSE, trace |-> << <<"Get", got>> >>]
    ELSE [requeue |-> in.reconcile.requeue,
          err |-> in.reconcile.err,
          trace |-> << <<"Get", "ok">>,
                       <<"reconcile", Outcome(in.reconcile.err)>>,
                       <<"commit", Outcome(in.commitErr)>> >>]

apibinding_process(k, in) ==
    LET got == ListerGet(k, in.getFault) IN
    IF got # "ok"
    THEN [requeue |-> FALSE, err |-> FALSE, trace |-> << <<"Get", got>> >>]
    ELSE [requeue |-> in.reconcile.requeue,
          err |-> in.reconcile.err \/ in.commitErr,
          trace |-> << <<"Get", "ok">>,
                       <<"reconcile", Outcome(in.reconcile.err)>>,
                       <<"commit", Outcome(in.commitErr)>> >>]

ExtraAnnotationProcessInputs ==
    [getFault : BOOLEAN,
     hasExportRef : BOOLEAN,
     exportLookup : {"ok", "NotFound", "Error"},
     patch : {"empty", "bytes", "Error"},
     patchErr : BOOLEAN]

extraannotationsync_process(k, in) ==
    LET got == ListerGet(k, in.getFault) IN
    IF got = "NotFound"
    THEN [requeue |-> FALSE, err |-> FALSE, trace |-> << <<"Get", got>> >>]
    ELSE IF got # "ok"
    THEN [requeue |-> FALSE, err |-> TRUE, trace |-> << <<"Get", got>> >>]
    ELSE IF ~in.hasExportRef
    THEN [requeue |-> FALSE, err |-> FALSE, trace |-> << <<"Get", "ok">> >>]
    ELSE IF in.exportLookup = "NotFound"
    THEN [requeue |-> FALSE, err |-> FALSE,
          trace |-> << <<"Get", "ok">>, <<"getAPIExport", "NotFound">> >>]
    ELSE IF in.exportLookup # "ok"
    THEN [requeue |-> FALSE, err |-> TRUE,
          trace |-> << <<"Get", "ok">>, <<"getAPIExport", "Error">> >>]
    ELSE IF in.patch = "Error"
    THEN [requeue |-> FALSE, err |-> TRUE,
          trace |-> << <<"Get", "ok">>, <<"getAPIExport", "ok">>,
                       <<"syncExtraAnnotationPatch", "Error">> >>]
    ELSE IF in.patch = "empty"
    THEN [requeue |-> FALSE, err |-> FALSE,
          trace |-> << <<"Get", "ok">>, <<"getAPIExport", "ok">>,
                       <<"syncExtraAnnotationPatch", "empty">> >>]
    ELSE [requeue |-> FALSE, err |-> in.patchErr,
          trace |-> << <<"Get", "ok">>, <<"getAPIExport", "ok">>,
                       <<"syncExtraAnnotationPatch", "bytes">>,
                       <<"Patch", Outcome(in.patchErr)>> >>]

\* the trace entry of process returning (r.requeue, r.err)
Return(r) ==
    <<"return",
      IF r.err THEN (IF r.requeue THEN "requeue+err" ELSE "err")
      ELSE (IF r.requeue THEN "requeue" ELSE "nil")>>

\* the requeue branch tested before the error branch
apibinding_requeue_RequeueFirst(r) ==
    IF r.requeue THEN "Add"
    ELSE IF r.err THEN "AddRateLimited"
    ELSE "Forget"

\* the queue call processNextWorkItem makes once process has returned r
apibinding_requeue(r) ==
    IF r.err THEN "AddRateLimited"
    ELSE IF r.requeue THEN "Add"
    ELSE "Forget"

extraannotationsync_requeue(r) ==
    IF r.err THEN "AddRateLimited" ELSE "Forget"

QueueCall(op, q, k) ==
    CASE op = "AddRateLimited" -> AddRateLimited(q, k)
      [] op = "Add" -> Add(q, k)
      [] op = "Forget" -> Forget(q, k)

-----------------------------------------------------------------------------
(* The binding informer's event handlers *)

\* enqueueAPIBinding: the queue after the handler ran for obj
enqueueAPIBinding(q, obj) ==
    Add(q, DeletionHandlingMetaClusterNamespaceKeyFunc(obj))

\* indexers.IndexAPIBindingByAPIExport: the export path the binding's spec
\* names (the binding's own cluster when the path is empty), joined with the
\* export name
IndexAPIBindingByAPIExport(b) ==
    LET path == IF b.exportPath = <<>> THEN ClusterPath(b.cluster) ELSE b.exportPath
    IN {Join(path, b.exportName)}

\* apiBindingsIndexer.IndexKeys(indexers.APIBindingsByAPIExport, value)
IndexKeys(value) ==
    {ToClusterAwareKey(b.cluster, b.name) :
        b \in {x \in bindingCache : value \in IndexAPIBindingByAPIExport(x)}}

\* apiBindingsIndexer.GetByKey(key): the set holding the binding, if cached
GetByKey(k) == {b \in bindingCache : ToClusterAwareKey(b.cluster, b.name) = k}

\* the element of a set of one
The(S) == CHOOSE x \in S : TRUE

-----------------------------------------------------------------------------
(* Strings.  Where the text of a string matters (URLs, annotation keys) a
   string is the sequence of its characters, each a one-character string. *)

\* the printable ASCII characters in the order of their byte values, the
\* space (0x20) first; the grave accent (0x60), which no string of this
\* language can hold, is written as its escape
Alphabet ==
    <<" ", "!", "\"", "#", "$", "%", "&", "'", "(", ")", "*", "+", ",", "-", ".", "/",
      "0", "1", "2", "3", "4", "5", "6", "7", "8", "9", ":", ";", "<", "=", ">", "?",
      "@", "A", "B", "C", "D", "E", "F", "G", "H", "I", "J", "K", "L", "M", "N", "O",
      "P", "Q", "R", "S", "T", "U", "V", "W", "X", "Y", "Z", "[", "\\", "]", "^", "_",
      "%60", "a", "b", "c", "d", "e", "f", "g", "h", "i", "j", "k", "l", "m", "n", "o",
      "p", "q", "r", "s", "t", "u", "v", "w", "x", "y", "z", "{", "|", "}", "~">>

\* "0123456789ABCDEF"
upperhex == <<"0", "1", "2", "3", "4", "5", "6", "7", "8", "9",
              "A", "B", "C", "D", "E", "F">>

\* the byte of value n as an element of a string: its character when it is
\* printable ASCII, else the three characters of its escape as one element
ByteChar(n) ==
    IF n \in 32..126 THEN Alphabet[n - 31]
    ELSE "%" \o upperhex[(n \div 16) + 1] \o upperhex[(n % 16) + 1]

\* the byte values of the printable characters
ByteOf == [ch \in {Alphabet[i] : i \in 1..Len(Alphabet)} |->
              31 + CHOOSE i \in 1..Len(Alphabet) : Alphabet[i] = ch]

\* the byte value of a character
Code(ch) ==
    IF ch \in DOMAIN ByteOf THEN ByteOf[ch]
    ELSE CHOOSE n \in (0..31) \cup (127..255) : ByteChar(n) = ch

\* the ASCII letters, digits and hexadecimal digits
Letters == {ByteChar(n) : n \in (65..90) \cup (97..122)}
Digits == {ByteChar(n) : n \in 48..57}
HexDigits == {ByteChar(n) : n \in (48..57) \cup (65..70) \cup (97..102)}

\* Go's < on strings: byte-wise lexicographic order
RECURSIVE StringLess(_, _)
StringLess(a, b) ==
    IF b = <<>> THEN FALSE
    ELSE IF a = <<>> THEN TRUE
    ELSE IF Head(a) = Head(b)
    THEN \E ta \in {Tail(a)} : \E tb \in {Tail(b)} : StringLess(ta, tb)
    ELSE Code(Head(a)) < Code(Head(b))

\* sets.String.List() on strings kept as character sequences: sorted
RECURSIVE SortedList(_)
SortedList(strs) ==
    IF strs = {} THEN <<>>
    ELSE The({<<least>> \o SortedList(strs \ {least}) :
                 least \in {CHOOSE x \in strs : \A y \in strs \ {x} : StringLess(x, y)}})

\* the characters of the cluster and object names in use
StringOf(name) ==
    CASE name = "c1" -> <<"c", "1">>
      [] name = "c2" -> <<"c", "2">>
      [] name = "c3" -> <<"c", "3">>
      [] name = "b1" -> <<"b", "1">>
      [] name = "b2" -> <<"b", "2">>
      [] name = "b3" -> <<"b", "3">>
      [] name = "b4" -> <<"b", "4">>
      [] name = "e" -> <<"e">>
      [] name = "f" -> <<"f">>
      [] name = "g" -> <<"g">>

-----------------------------------------------------------------------------
(* Indexes and keys, continued *)

\* the text of the key cluster|name
KeyString(k) == StringOf(k[1]) \o <<"|">> \o StringOf(k[2])

\* Go's < on the texts of two keys
KeyLess(x, y) ==
    \E a \in {KeyString(x)} : \E b \in {KeyString(y)} : StringLess(a, b)

\* sets.String.List() on a set of keys: every key of the set, sorted by the
\* text cluster|name
RECURSIVE List(_)
List(keySet) ==
    IF keySet = {} THEN <<>>
    ELSE The({The({<<least>> \o List(rest) : rest \in {keySet \ {least}}}) :
                 least \in {CHOOSE x \in keySet :
                               \A y \in keySet \ {x} : KeyLess(x, y)}})

\* indexAPIExportsByAPIResourceSchemasFunc: cluster|schema for every schema
\* the export references
indexAPIExportsByAPIResourceSchemasFunc(e) ==
    {ToClusterAwareKey(e.cluster, n) : n \in e.latestResourceSchemas}

\* indexer.ByIndex(indexAPIExportsByAPIResourceSchema, key)
ByIndex(indexer, k) ==
    {e \in indexer : k \in indexAPIExportsByAPIResourceSchemasFunc(e)}

\* the sequences that list every element of a set once (an indexer returns
\* the objects of an index in no particular order)
RECURSIVE Orderings(_)
Orderings(S) ==
    IF S = {} THEN {<<>>}
    ELSE UNION {{<<x>> \o rest : rest \in Orderings(S \ {x})} : x \in S}

RECURSIVE Flatten(_)
Flatten(seqs) ==
    IF seqs = <<>> THEN <<>>
    ELSE The({Head(seqs) \o Flatten(rest) : rest \in {Tail(seqs)}})

-----------------------------------------------------------------------------
(* The two-tier lookups.  A lookup result is [status, obj] with status "ok",
   "NotFound" or "Error"; tiers lists the tiers consulted.  A fault makes a
   tier fail with an error other than NotFound. *)

NoObj == [kind |-> "nil"]
Result(status, obj, tiers) == [status |-> status, obj |-> obj, tiers |-> tiers]

\* indexers.IndexByLogicalClusterPathAndName: the public path annotation if
\* set, else the home cluster path, joined with the name
IndexByLogicalClusterPathAndName(e) ==
    IF e.pathAnnotation # <<>> THEN {Join(e.pathAnnotation, e.name)}
    ELSE {Join(ClusterPath(e.cluster), e.name)}

\* indexers.ByPathAndName on one export indexer
ByPathAndName(indexer, path, name, fault) ==
    LET found == {e \in indexer : Join(path, name) \in IndexByLogicalClusterPathAndName(e)}
    IN IF fault \/ Cardinality(found) > 1 THEN [status |-> "Error", obj |-> NoObj]
       ELSE IF found = {} THEN [status |-> "NotFound", obj |-> NoObj]
       ELSE [status |-> "ok", obj |-> CHOOSE e \in found : TRUE]

\* the global tier consulted on every local error
getAPIExport_FallbackOnAnyError(path, name, localFault, globalFault) ==
    LET l == ByPathAndName(localExports, path, name, localFault)
        g == ByPathAndName(globalExports, path, name, globalFault)
    IN IF l.status = "ok" THEN Result("ok", l.obj, <<"local">>)
       ELSE Result(g.status, g.obj, <<"local", "global">>)

\* getAPIExport of the APIBinding controller
getAPIExport(path, name, localFault, globalFault) ==
    LET l == ByPathAndName(localExports, path, name, localFault)
        g == ByPathAndName(globalExports, path, name, globalFault)
    IN IF l.status = "ok" THEN Result("ok", l.obj, <<"local">>)
       ELSE IF l.status # "NotFound" THEN Result(l.status, NoObj, <<"local">>)
       ELSE Result(g.status, g.obj, <<"local", "global">>)

\* a schema lister: Cluster(clusterName).Get(name)
SchemaListerGet(lister, clusterName, name, fault) ==
    LET found == {x \in lister : x.cluster = clusterName /\ x.name = name}
    IN IF fault THEN [status |-> "Error", obj |-> NoObj]
       ELSE IF found = {} THEN [status |-> "NotFound", obj |-> NoObj]
       ELSE [status |-> "ok", obj |-> CHOOSE x \in found : TRUE]

\* getAPIResourceSchema of the APIBinding controller
getAPIResourceSchema(clusterName, name, localFault, globalFault) ==
    LET l == SchemaListerGet(localSchemas, clusterName, name, localFault)
        g == SchemaListerGet(globalSchemas, clusterName, name, globalFault)
    IN IF l.status = "NotFound" THEN Result(g.status, g.obj, <<"local", "global">>)
       ELSE Result(l.status, l.obj, <<"local">>)

-----------------------------------------------------------------------------
(* The enqueue functions of the APIBinding controller.  A handler runs on
   the goroutine of its informer's listener and takes the lock of a cache,
   of the deleted-CRD tracker or of the queue for one access at a time, so
   the handlers of the other informers and the workers run between two
   accesses of a handler.  Each function yields the accesses the handler has
   still to make, in order, and whether it panics.  An access is a call,
   <<"queue.Add", key>> or <<"deletedCRDTracker.Add", name>>, or a read,
   <<"apiResourceSchemaLister.Get", clusterName, name>>,
   <<"globalAPIResourceSchemaLister.Get", clusterName, name>>,
   <<"apiExportsIndexer.ByIndex", obj>>,
   <<"globalAPIExportsIndexer.ByIndex", obj>>,
   <<"apiBindingsIndexer.IndexKeys", value, keys, next>> (keys being the
   keys the handler has collected, next the index values it reads after
   this one) or <<"apiBindingsIndexer.GetByKey", key>>; the function that
   takes the handler on from a read is given what the read returned. *)

Ran(handlerCalls) == [calls |-> handlerCalls, panic |-> FALSE]
Panic == [calls |-> <<>>, panic |-> TRUE]

QueueAdd(k) == <<"queue.Add", k>>

\* the read of the binding index by value
IndexKeysRead(value, keys, next) ==
    <<"apiBindingsIndexer.IndexKeys", value, keys, next>>

\* enqueueAPIExport once apiBindingsIndexer.GetByKey has returned found, the
\* set holding the binding if it exists: enqueueAPIBinding adds its key
enqueueAPIExport_GetByKey(found) ==
    IF found = {} THEN Ran(<<>>)
    ELSE Ran(<<QueueAdd(DeletionHandlingMetaClusterNamespaceKeyFunc(The(found)))>>)

\* enqueueAPIExport once apiBindingsIndexer.IndexKeys has returned found,
\* keys having been collected before: it reads the index by the next value
\* or, none being left, looks every key of keys.List() up
enqueueAPIExport_IndexKeys(keys, next, found) ==
    IF next # <<>>
    THEN Ran(<<IndexKeysRead(Head(next), keys \cup found, Tail(next))>>)
    ELSE The({Ran([i \in 1..Len(list) |-> <<"apiBindingsIndexer.GetByKey", list[i]>>])
              : list \in {List(keys \cup found)}})

\* enqueueAPIExport with the lookup by the path annotation left out
enqueueAPIExport_ClusterNameOnly(obj) ==
    The({IF export.kind # "APIExport" THEN Ran(<<>>)
         ELSE Ran(<<IndexKeysRead(Join(ClusterPath(export.cluster), export.name),
                                  {}, <<>>)>>)
         : export \in {IF IsTombstone(obj) THEN obj.obj ELSE obj}})

\* enqueueAPIExport up to its first access: it reads the binding index by
\* the export's path annotation, when it has one, then by its logical
\* cluster
enqueueAPIExport(obj) ==
    The({IF export.kind # "APIExport" THEN Ran(<<>>)
         ELSE IF export.pathAnnotation # <<>>
         THEN Ran(<<IndexKeysRead(Join(export.pathAnnotation, export.name), {},
                                  <<Join(ClusterPath(export.cluster), export.name)>>)>>)
         ELSE Ran(<<IndexKeysRead(Join(ClusterPath(export.cluster), export.name),
                                  {}, <<>>)>>)
         : export \in {IF IsTombstone(obj) THEN obj.obj ELSE obj}})

\* the loop of enqueueAPIResourceSchema over the exports apiExports an index
\* returned.  The loop asserts obj to be an *APIResourceSchema for every
\* export, which panics for a tombstone.
enqueueAPIResourceSchema_range(obj, apiExports) ==
    IF apiExports # <<>> /\ obj.kind # "APIResourceSchema" THEN Panic
    ELSE The({Ran(Flatten(each))
              : each \in {[i \in 1..Len(apiExports) |->
                              enqueueAPIExport(apiExports[i]).calls]}})

\* enqueueAPIResourceSchema going on to the global index whatever the local
\* index returned
enqueueAPIResourceSchema_local_BothIndexes(obj, apiExports) ==
    LET r == enqueueAPIResourceSchema_range(obj, apiExports)
    IN IF r.panic THEN r
       ELSE Ran(r.calls \o << <<"globalAPIExportsIndexer.ByIndex", obj>> >>)

\* enqueueAPIResourceSchema once apiExportsIndexer.ByIndex has returned
\* apiExports: the global index is read when the local index returned no
\* export
enqueueAPIResourceSchema_local(obj, apiExports) ==
    IF apiExports = <<>>
    THEN Ran(<< <<"globalAPIExportsIndexer.ByIndex", obj>> >>)
    ELSE enqueueAPIResourceSchema_range(obj, apiExports)

\* enqueueAPIResourceSchema once globalAPIExportsIndexer.ByIndex has
\* returned apiExports
enqueueAPIResourceSchema_global(obj, apiExports) ==
    enqueueAPIResourceSchema_range(obj, apiExports)

\* enqueueAPIResourceSchema up to its first access, the read of the local
\* export index by the key of obj
enqueueAPIResourceSchema(obj) ==
    Ran(<< <<"apiExportsIndexer.ByIndex", obj>> >>)

\* enqueueCRD once the global lister has returned g to getAPIResourceSchema
enqueueCRD_global(g) ==
    IF g.status # "ok" THEN Ran(<<>>)
    ELSE enqueueAPIResourceSchema(g.obj)

\* enqueueCRD once the local lister has returned l to getAPIResourceSchema:
\* the global lister is read when the local one returned NotFound
enqueueCRD_local(l, clusterName, name) ==
    IF l.status = "NotFound"
    THEN Ran(<< <<"globalAPIResourceSchemaLister.Get", clusterName, name>> >>)
    ELSE IF l.status # "ok" THEN Ran(<<>>)
    ELSE enqueueAPIResourceSchema(l.obj)

\* enqueueCRD up to its first access: it maps a CRD to its schema by the
\* two annotations, getAPIResourceSchema reading the local lister first
enqueueCRD(obj) ==
    IF obj.kind # "CustomResourceDefinition" THEN Ran(<<>>)
    ELSE IF obj.schemaCluster = "" \/ obj.schemaName = "" THEN Ran(<<>>)
    ELSE Ran(<< <<"apiResourceSchemaLister.Get", obj.schemaCluster, obj.schemaName>> >>)

\* FilterFunc letting the resource definitions of every cluster through
crdFilterFunc_AnyCluster(obj) ==
    obj.kind = "CustomResourceDefinition"

\* FilterFunc of the CRD informer's handler
crdFilterFunc(obj) ==
    /\ obj.kind = "CustomResourceDefinition"
    /\ obj.cluster = SystemBoundCRDsClusterName

\* DeleteFunc of the CRD informer, behind the filter: the name goes to the
\* deleted-CRD tracker, then enqueueCRD runs
crdDeleteFunc(obj) ==
    LET r == enqueueCRD(obj)
    IN [r EXCEPT !.calls = << <<"deletedCRDTracker.Add", obj.name>> >> \o @]

\* what the handler has to do after the read op, made now and without a
\* fault, order being the order in which an index returns exports
HandlerRead(op, order) ==
    CASE op[1] = "apiResourceSchemaLister.Get" ->
           The({enqueueCRD_local(l, op[2], op[3])
                : l \in {SchemaListerGet(localSchemas, op[2], op[3], FALSE)}})
      [] op[1] = "globalAPIResourceSchemaLister.Get" ->
           The({enqueueCRD_global(l)
                : l \in {SchemaListerGet(globalSchemas, op[2], op[3], FALSE)}})
      [] op[1] = "apiExportsIndexer.ByIndex" ->
           The({enqueueAPIResourceSchema_local(op[2], apiExports)
                : apiExports \in
                    {SelectSeq(order, LAMBDA e :
                         e \in ByIndex(localExports,
                                       DeletionHandlingMetaClusterNamespaceKeyFunc(op[2])))}})
      [] op[1] = "globalAPIExportsIndexer.ByIndex" ->
           The({enqueueAPIResourceSchema_global(op[2], apiExports)
                : apiExports \in
                    {SelectSeq(order, LAMBDA e :
                         e \in ByIndex(globalExports,
                                       DeletionHandlingMetaClusterNamespaceKeyFunc(op[2])))}})
      [] op[1] = "apiBindingsIndexer.IndexKeys" ->
           The({enqueueAPIExport_IndexKeys(op[3], op[4], found)
                : found \in {IndexKeys(op[2])}})
      [] op[1] = "apiBindingsIndexer.GetByKey" ->
           The({enqueueAPIExport_GetByKey(found) : found \in {GetByKey(op[2])}})

\* the accesses left of todo when every read among them is made now and
\* without a fault, order being the order in which an index returns exports
\* (in a specification that leaves the export indexes and the schema
\* listers as they are a read returns the same whenever it is made): the
\* calls of queue.Add and deletedCRDTracker.Add up to the end of the handler
\* or up to a read after which the handler panics, and that read
RECURSIVE HandlerCalls(_, _)
HandlerCalls(todo, order) ==
    IF todo = <<>> THEN <<>>
    ELSE The({IF op[1] \in {"queue.Add", "deletedCRDTracker.Add"}
              THEN The({<<op>> \o HandlerCalls(rest, order) : rest \in {Tail(todo)}})
              ELSE The({IF r.panic THEN <<op>>
                        ELSE HandlerCalls(r.calls \o Tail(todo), order)
                        : r \in {HandlerRead(op, order)}})
              : op \in {Head(todo)}})

\* UpdateFunc of the binding informer
APIBindingUpdated(b) ==
    /\ ~panicked
    /\ b \in bindingCache
    /\ queue' = enqueueAPIBinding(queue, b)
    /\ UNCHANGED <<objectVars, ctrl, ctxDone, startPc, workerVars, cacheVars,
                   deletedCRDTracker, hlog, panicked, handlerVars>>

-----------------------------------------------------------------------------
(* The goroutines the handlers run on.  An informer, on its own goroutine,
   updates its indexer and appends a notification to the queue of the
   listener the controller registered with it; the listener, on another
   goroutine, takes the notifications in order and runs the handler for one
   of them at a time, so the indexer may have moved on when a handler
   begins. *)

Informers == {"local", "global"}

ExportListener(informer) ==
    IF informer = "local" THEN "apiExportInformer" ELSE "globalAPIExportInformer"
SchemaListener(informer) ==
    IF informer = "local" THEN "apiResourceSchemaInformer"
    ELSE "globalAPIResourceSchemaInformer"
CRDListener == "crdInformer"
BindingListener == "apiBindingInformer"

Listeners == {ExportListener(informer) : informer \in Informers}
             \cup {SchemaListener(informer) : informer \in Informers}
             \cup {CRDListener, BindingListener}

\* a listener that runs no handler
NoHandler == [handler |-> "none"]

\* what hlog holds while the handler of listener g is on its way
Running(g) == << <<"running", g>> >>

\* the handler f of listener g has made the access logged as entry and has
\* the accesses of r left to make before those it had in line; it ends when
\* none is left or when it panics
HandlerGoesOn(g, f, entry, r) ==
    LET made == IF f.logged THEN f.calls \o <<entry>> ELSE <<>>
        todo == r.calls \o Tail(f.todo)
    IN /\ panicked' = r.panic
       /\ IF r.panic \/ todo = <<>>
          THEN /\ handlers' = [handlers EXCEPT ![g] = NoHandler]
               /\ hlog' = IF f.logged THEN << <<f.handler, f.obj>> >> \o made
                          ELSE hlog
          ELSE /\ handlers' = [handlers EXCEPT ![g] =
                                   [f EXCEPT !.todo = todo, !.calls = made]]
               /\ hlog' = IF f.logged THEN Running(g) ELSE hlog

\* the listener g, running no handler, begins the handler named handler for
\* obj, which has the accesses of r to make; logged tells whether hlog
\* keeps what the handler does
HandlerBegins(g, handler, obj, r, logged) ==
    /\ ~panicked
    /\ handlers[g] = NoHandler
    /\ panicked' = r.panic
    /\ IF r.panic \/ r.calls = <<>>
       THEN /\ handlers' = handlers
            /\ hlog' = IF logged THEN << <<handler, obj>> >> ELSE hlog
       ELSE /\ handlers' = [handlers EXCEPT ![g] =
                                [handler |-> handler, obj |-> obj,
                                 todo |-> r.calls, calls |-> <<>>,
                                 logged |-> logged]]
            /\ hlog' = IF logged THEN Running(g) ELSE hlog

\* the handler running on listener g makes its next access; order is the
\* order in which an index returns exports, fault makes a lister fail
HandlerAccess(g, order, fault) ==
    /\ ~panicked
    /\ handlers[g] # NoHandler
    /\ \E f \in {handlers[g]} :
       \E op \in {Head(f.todo)} :
          CASE op[1] = "queue.Add" ->
                 /\ queue' = Add(queue, op[2])
                 /\ UNCHANGED deletedCRDTracker
                 /\ HandlerGoesOn(g, f, op, Ran(<<>>))
            [] op[1] = "deletedCRDTracker.Add" ->
                 /\ deletedCRDTracker' = deletedCRDTracker \cup {op[2]}
                 /\ UNCHANGED queue
                 /\ HandlerGoesOn(g, f, op, Ran(<<>>))
            [] op[1] = "apiResourceSchemaLister.Get" ->
                 /\ UNCHANGED <<queue, deletedCRDTracker>>
                 /\ \E l \in {SchemaListerGet(localSchemas, op[2], op[3], fault)} :
                        HandlerGoesOn(g, f, <<op[1], l.status>>,
                                      enqueueCRD_local(l, op[2], op[3]))
            [] op[1] = "globalAPIResourceSchemaLister.Get" ->
                 /\ UNCHANGED <<queue, deletedCRDTracker>>
                 /\ \E l \in {SchemaListerGet(globalSchemas, op[2], op[3], fault)} :
                        HandlerGoesOn(g, f, <<op[1], l.status>>,
                                      enqueueCRD_global(l))
            [] op[1] = "apiExportsIndexer.ByIndex" ->
                 /\ UNCHANGED <<queue, deletedCRDTracker>>
                 /\ \E k \in {DeletionHandlingMetaClusterNamespaceKeyFunc(op[2])} :
                    \E found \in {ByIndex(localExports, k)} :
                        HandlerGoesOn(g, f,
                            <<op[1], found, ByIndex(globalExports, k)>>,
                            enqueueAPIResourceSchema_local(
                                op[2], SelectSeq(order, LAMBDA e : e \in found)))
            [] op[1] = "globalAPIExportsIndexer.ByIndex" ->
                 /\ UNCHANGED <<queue, deletedCRDTracker>>
                 /\ \E k \in {DeletionHandlingMetaClusterNamespaceKeyFunc(op[2])} :
                    \E found \in {ByIndex(globalExports, k)} :
                        HandlerGoesOn(g, f, <<op[1], found>>,
                            enqueueAPIResourceSchema_global(
                                op[2], SelectSeq(order, LAMBDA e : e \in found)))
            [] op[1] = "apiBindingsIndexer.IndexKeys" ->
                 /\ UNCHANGED <<queue, deletedCRDTracker>>
                 /\ \E found \in {IndexKeys(op[2])} :
                        HandlerGoesOn(g, f, <<op[1], op[2], found>>,
                            enqueueAPIExport_IndexKeys(op[3], op[4], found))
            [] op[1] = "apiBindingsIndexer.GetByKey" ->
                 /\ UNCHANGED <<queue, deletedCRDTracker>>
                 /\ \E found \in {GetByKey(op[2])} :
                        HandlerGoesOn(g, f, <<op[1], op[2], found # {}>>,
                            enqueueAPIExport_GetByKey(found))
    /\ UNCHANGED <<objectVars, ctrl, ctxDone, startPc, workerVars, cacheVars,
                   handlerEvents, notifications>>

\* what hlog holds when the informer of listener g has stored an event
Notified(g) == << <<"notified", g>> >>

\* the informer of listener g, having stored an event in its indexer, hands
\* it to g, which will call handler for obj when the handlers of the
\* events before it have returned
Notify(g, handler, obj) ==
    /\ ~panicked
    /\ handlerEvents > 0
    /\ handlerEvents' = handlerEvents - 1
    /\ notifications' = [notifications EXCEPT ![g] = Append(@, <<handler, obj>>)]
    /\ hlog' = Notified(g)
    /\ UNCHANGED <<objectVars, ctrl, ctxDone, startPc, workerVars,
                   queue, deletedCRDTracker, panicked, handlers>>

\* the function registered as handler, called for obj: what it does up to
\* its first access.  The handlers of the CRD informer sit behind FilterFunc.
HandlerFunc(handler, obj) ==
    CASE handler = "enqueueAPIBinding" ->
           Ran(<<QueueAdd(DeletionHandlingMetaClusterNamespaceKeyFunc(obj))>>)
      [] handler = "enqueueAPIExport" -> enqueueAPIExport(obj)
      [] handler = "enqueueAPIResourceSchema" -> enqueueAPIResourceSchema(obj)
      [] handler = "enqueueCRD" ->
           IF crdFilterFunc(obj) THEN enqueueCRD(obj) ELSE Ran(<<>>)
      [] handler = "DeleteFunc" ->
           IF crdFilterFunc(obj) THEN crdDeleteFunc(obj) ELSE Ran(<<>>)

\* the listener g, running no handler, takes the first of the events handed
\* to it and calls the handler; hlog keeps what the handler does
RunHandler(g) ==
    /\ notifications[g] # <<>>
    /\ notifications' = [notifications EXCEPT ![g] = Tail(@)]
    /\ \E n \in {Head(notifications[g])} :
       \E r \in {HandlerFunc(n[1], n[2])} :
           HandlerBegins(g, n[1], n[2], r, TRUE)
    /\ UNCHANGED <<objectVars, ctrl, ctxDone, startPc, workerVars, cacheVars,
                   queue, deletedCRDTracker, handlerEvents>>

ExportIndexer(informer) == IF informer = "local" THEN localExports ELSE globalExports

SetExportIndexer(informer, indexer) ==
    /\ IF informer = "local"
       THEN localExports' = indexer /\ UNCHANGED globalExports
       ELSE globalExports' = indexer /\ UNCHANGED localExports
    /\ UNCHANGED <<localSchemas, globalSchemas, bindingCache>>

SchemaLister(informer) == IF informer = "local" THEN localSchemas ELSE globalSchemas

SetSchemaLister(informer, lister) ==
    /\ IF informer = "local"
       THEN localSchemas' = lister /\ UNCHANGED globalSchemas
       ELSE globalSchemas' = lister /\ UNCHANGED localSchemas
    /\ UNCHANGED <<localExports, globalExports, bindingCache>>

SetBindingIndexer(indexer) ==
    /\ bindingCache' = indexer
    /\ UNCHANGED <<localExports, globalExports, localSchemas, globalSchemas>>

\* the binding informer stores an added binding; its listener will call
\* AddFunc
APIBindingAdded(b) ==
    /\ b \notin bindingCache
    /\ SetBindingIndexer(bindingCache \cup {b})
    /\ Notify(BindingListener, "enqueueAPIBinding", b)

\* the binding informer stores a binding again; its listener will call
\* UpdateFunc
APIBindingStored(b) ==
    /\ b \in bindingCache
    /\ SetBindingIndexer(bindingCache)
    /\ Notify(BindingListener, "enqueueAPIBinding", b)

\* the binding informer drops a binding from its indexer; its listener will
\* call DeleteFunc for obj, which is b or its tombstone
APIBindingDeleted(b, obj) ==
    /\ b \in bindingCache
    /\ SetBindingIndexer(bindingCache \ {b})
    /\ Notify(BindingListener, "enqueueAPIBinding", obj)

\* an export informer stores an added export; its listener will call AddFunc
APIExportAdded(informer, e) ==
    /\ e \notin ExportIndexer(informer)
    /\ SetExportIndexer(informer, ExportIndexer(informer) \cup {e})
    /\ Notify(ExportListener(informer), "enqueueAPIExport", e)

\* an export informer stores an export again; its listener will call
\* UpdateFunc
APIExportUpdated(informer, e) ==
    /\ e \in ExportIndexer(informer)
    /\ SetExportIndexer(informer, ExportIndexer(informer))
    /\ Notify(ExportListener(informer), "enqueueAPIExport", e)

\* an export informer drops an export from its indexer; its listener will
\* call DeleteFunc for obj, which is e or its tombstone
APIExportDeleted(informer, e, obj) ==
    /\ e \in ExportIndexer(informer)
    /\ SetExportIndexer(informer, ExportIndexer(informer) \ {e})
    /\ Notify(ExportListener(informer), "enqueueAPIExport", obj)

\* a schema informer stores an added schema; its listener will call AddFunc
APIResourceSchemaAdded(informer, s) ==
    /\ s \notin SchemaLister(informer)
    /\ SetSchemaLister(informer, SchemaLister(informer) \cup {s})
    /\ Notify(SchemaListener(informer), "enqueueAPIResourceSchema", s)

\* a schema informer stores a schema again; its listener will call
\* UpdateFunc
APIResourceSchemaUpdated(informer, s) ==
    /\ s \in SchemaLister(informer)
    /\ SetSchemaLister(informer, SchemaLister(informer))
    /\ Notify(SchemaListener(informer), "enqueueAPIResourceSchema", s)

\* a schema informer drops a schema from its lister; its listener will call
\* DeleteFunc for obj, which is s or its tombstone
APIResourceSchemaDeleted(informer, s, obj) ==
    /\ s \in SchemaLister(informer)
    /\ SetSchemaLister(informer, SchemaLister(informer) \ {s})
    /\ Notify(SchemaListener(informer), "enqueueAPIResourceSchema", obj)

\* the CRD informer has stored an added resource definition; its listener
\* will call AddFunc behind the filter
CRDAdded(crd) ==
    /\ UNCHANGED cacheVars
    /\ Notify(CRDListener, "enqueueCRD", crd)

\* the CRD informer has stored a resource definition again; its listener
\* will call UpdateFunc behind the filter
CRDUpdated(crd) ==
    /\ UNCHANGED cacheVars
    /\ Notify(CRDListener, "enqueueCRD", crd)

\* the CRD informer has dropped a resource definition; its listener will
\* call DeleteFunc behind the filter for obj, a CRD or the tombstone of one
CRDDeleted(obj) ==
    /\ UNCHANGED cacheVars
    /\ Notify(CRDListener, "DeleteFunc", obj)

\* a reconcile calls c.getAPIExport(path, name)
GetAPIExport(path, name, localFault, globalFault) ==
    /\ hlog' = << <<"getAPIExport", [path |-> path, name |-> name,
                                     localFault |-> localFault,
                                     globalFault |-> globalFault]>>,
                  getAPIExport(path, name, localFault, globalFault) >>
    /\ UNCHANGED <<objectVars, ctrl, ctxDone, startPc, queue, workerVars, cacheVars,
                   deletedCRDTracker, panicked, handlerVars>>

\* a reconcile or enqueueCRD calls c.getAPIResourceSchema(clusterName, name)
GetAPIResourceSchema(clusterName, name, localFault, globalFault) ==
    /\ hlog' = << <<"getAPIResourceSchema", [cluster |-> clusterName, name |-> name,
                                             localFault |-> localFault,
                                             globalFault |-> globalFault]>>,
                  getAPIResourceSchema(clusterName, name, localFault, globalFault) >>
    /\ UNCHANGED <<objectVars, ctrl, ctxDone, startPc, queue, workerVars, cacheVars,
                   deletedCRDTracker, panicked, handlerVars>>

-----------------------------------------------------------------------------
(* Paths and URLs *)

\* strings.Split(str, "/")
RECURSIVE SplitSlash(_)
SplitSlash(str) ==
    IF str = <<>> THEN << <<>> >>
    ELSE The({IF Head(str) = "/" THEN << <<>> >> \o rest
              ELSE << <<Head(str)>> \o Head(rest) >> \o Tail(rest) :
                 rest \in {SplitSlash(Tail(str))}})

\* strings.Join(elems, "/")
RECURSIVE JoinSlash(_)
JoinSlash(elems) ==
    IF elems = <<>> THEN <<>>
    ELSE IF Len(elems) = 1 THEN Head(elems)
    ELSE Head(elems) \o <<"/">> \o JoinSlash(Tail(elems))

\* the elements path.Clean keeps, out being those kept so far
RECURSIVE CleanElems(_, _, _)
CleanElems(elems, out, rooted) ==
    IF elems = <<>> THEN out
    ELSE LET e == Head(elems) IN
         IF e = <<>> \/ e = <<".">> THEN CleanElems(Tail(elems), out, rooted)
         ELSE IF e = <<".", ".">>
         THEN IF out # <<>> /\ out[Len(out)] # <<".", ".">>
              THEN CleanElems(Tail(elems), SubSeq(out, 1, Len(out) - 1), rooted)
              ELSE IF rooted THEN CleanElems(Tail(elems), out, rooted)
              ELSE CleanElems(Tail(elems), Append(out, e), rooted)
         ELSE CleanElems(Tail(elems), Append(out, e), rooted)

\* path.Clean
Clean(p) ==
    IF p = <<>> THEN <<".">>
    ELSE LET rooted == Head(p) = "/"
             out == (IF rooted THEN <<"/">> ELSE <<>>)
                    \o JoinSlash(CleanElems(SplitSlash(p), <<>>, rooted))
         IN IF out = <<>> THEN <<".">> ELSE out

\* path.Join: the non-empty elements joined by slashes, then cleaned
PathJoin(elems) ==
    LET nonEmpty == SelectSeq(elems, LAMBDA e : e # <<>>)
    IN IF nonEmpty = <<>> THEN <<>> ELSE Clean(JoinSlash(nonEmpty))

Https == <<"h", "t", "t", "p", "s", ":", "/", "/">>

\* strings.Index and strings.LastIndex for a one-byte separator, counted
\* from 1; 0 when sep does not occur
Index(str, sep) ==
    IF \E i \in 1..Len(str) : str[i] = sep
    THEN CHOOSE i \in 1..Len(str) : str[i] = sep /\ \A j \in 1..(i - 1) : str[j] # sep
    ELSE 0
LastIndex(str, sep) ==
    IF \E i \in 1..Len(str) : str[i] = sep
    THEN CHOOSE i \in 1..Len(str) : str[i] = sep /\ \A j \in (i + 1)..Len(str) : str[j] # sep
    ELSE 0

\* strings.Cut for a one-byte separator
Cut(str, sep) ==
    LET i == Index(str, sep)
    IN IF i = 0 THEN [before |-> str, after |-> <<>>, found |-> FALSE]
       ELSE [before |-> SubSeq(str, 1, i - 1),
             after |-> SubSeq(str, i + 1, Len(str)), found |-> TRUE]

\* the position of the first "%25" in str, 0 when there is none
IndexPercent25(str) ==
    LET at == {i \in 1..(Len(str) - 2) : SubSeq(str, i, i + 2) = <<"%", "2", "5">>}
    IN IF at = {} THEN 0 ELSE CHOOSE i \in at : \A j \in at : i <= j

IsLetter(c) == c \in Letters
IsDigit(c) == c \in Digits
ishex(c) == c \in HexDigits
unhex(c) ==
    The({IF n \in 48..57 THEN n - 48
         ELSE IF n \in 97..102 THEN n - 97 + 10
         ELSE n - 65 + 10 : n \in {Code(c)}})

\* strings.ToLower on ASCII
RECURSIVE ToLower(_)
ToLower(str) ==
    IF str = <<>> THEN <<>>
    ELSE <<IF Head(str) \in Letters /\ Code(Head(str)) <= 90
           THEN ByteChar(Code(Head(str)) + 32)
           ELSE Head(str)>> \o ToLower(Tail(str))

\* net/url shouldEscape for the modes url.Parse and URL.String use
shouldEscape(c, mode) ==
    IF IsLetter(c) \/ IsDigit(c) THEN FALSE
    ELSE IF /\ mode \in {"encodeHost", "encodeZone"}
            /\ c \in {"!", "$", "&", "'", "(", ")", "*", "+", ",", ";", "=", ":",
                      "[", "]", "<", ">", "\""}
    THEN FALSE
    ELSE IF c \in {"-", "_", ".", "~"} THEN FALSE
    ELSE IF /\ c \in {"$", "&", "+", ",", "/", ":", ";", "=", "?", "@"}
            /\ mode \in {"encodePath", "encodeUserPassword", "encodeFragment"}
    THEN CASE mode = "encodePath" -> c = "?"
           [] mode = "encodeUserPassword" -> c \in {"@", "/", "?", ":"}
           [] mode = "encodeFragment" -> FALSE
    ELSE IF mode = "encodeFragment" /\ c \in {"!", "(", ")", "*"} THEN FALSE
    ELSE TRUE

\* net/url unescape: the decoded string, or err for a percent sign that
\* starts no escape, an escape the host may not hold, or a byte the host
\* may not hold
RECURSIVE unescape(_, _)
unescape(s, mode) ==
    IF s = <<>> THEN [err |-> FALSE, str |-> <<>>]
    ELSE IF Head(s) = "%"
    THEN IF Len(s) < 3 \/ ~ishex(s[2]) \/ ~ishex(s[3])
         THEN [err |-> TRUE, str |-> <<>>]
         ELSE The({
              IF /\ mode = "encodeHost"
                 /\ unhex(s[2]) < 8
                 /\ SubSeq(s, 1, 3) # <<"%", "2", "5">>
              THEN [err |-> TRUE, str |-> <<>>]
              ELSE IF /\ mode = "encodeZone"
                      /\ SubSeq(s, 1, 3) # <<"%", "2", "5">>
                      /\ b # 32
                      /\ shouldEscape(ByteChar(b), "encodeHost")
              THEN [err |-> TRUE, str |-> <<>>]
              ELSE The({IF rest.err THEN rest
                        ELSE [err |-> FALSE, str |-> <<ByteChar(b)>> \o rest.str] :
                           rest \in {unescape(SubSeq(s, 4, Len(s)), mode)}}) :
                 b \in {16 * unhex(s[2]) + unhex(s[3])}})
    ELSE IF /\ mode \in {"encodeHost", "encodeZone"}
            /\ Code(Head(s)) < 128
            /\ shouldEscape(Head(s), "encodeHost")
    THEN [err |-> TRUE, str |-> <<>>]
    ELSE The({IF rest.err THEN rest
              ELSE [err |-> FALSE, str |-> <<Head(s)>> \o rest.str] :
                 rest \in {unescape(Tail(s), mode)}})

\* net/url escape: each byte shouldEscape names becomes %XX in upper case
RECURSIVE escape(_, _)
escape(s, mode) ==
    IF s = <<>> THEN <<>>
    ELSE (IF shouldEscape(Head(s), mode)
          THEN <<"%", upperhex[(Code(Head(s)) \div 16) + 1],
                 upperhex[(Code(Head(s)) % 16) + 1]>>
          ELSE <<Head(s)>>) \o escape(Tail(s), mode)

\* net/url validEncoded
validEncoded(s, mode) ==
    \A i \in 1..Len(s) :
        \/ s[i] \in {"!", "$", "&", "'", "(", ")", "*", "+", ",", ";", "=", ":", "@",
                     "[", "]", "%"}
        \/ ~shouldEscape(s[i], mode)

\* net/url getScheme from position i on: the scheme before the first colon
\* and the rest, no scheme when a byte no scheme may hold comes first
RECURSIVE getScheme(_, _)
getScheme(rawURL, i) ==
    IF i > Len(rawURL) THEN [err |-> FALSE, scheme |-> <<>>, rest |-> rawURL]
    ELSE IF IsLetter(rawURL[i]) THEN getScheme(rawURL, i + 1)
    ELSE IF IsDigit(rawURL[i]) \/ rawURL[i] \in {"+", "-", "."}
    THEN IF i = 1 THEN [err |-> FALSE, scheme |-> <<>>, rest |-> rawURL]
         ELSE getScheme(rawURL, i + 1)
    ELSE IF rawURL[i] = ":"
    THEN IF i = 1 THEN [err |-> TRUE, scheme |-> <<>>, rest |-> <<>>]
         ELSE [err |-> FALSE, scheme |-> SubSeq(rawURL, 1, i - 1),
               rest |-> SubSeq(rawURL, i + 1, Len(rawURL))]
    ELSE [err |-> FALSE, scheme |-> <<>>, rest |-> rawURL]

\* net/url validOptionalPort: empty, or a colon followed by digits only
validOptionalPort(port) ==
    \/ port = <<>>
    \/ /\ Head(port) = ":"
       /\ \A i \in 2..Len(port) : IsDigit(port[i])

\* net/url parseHost
parseHost(host) ==
    IF host # <<>> /\ Head(host) = "["
    THEN The({
         IF i = 0 THEN [err |-> TRUE, str |-> <<>>]
         ELSE IF ~validOptionalPort(SubSeq(host, i + 1, Len(host)))
         THEN [err |-> TRUE, str |-> <<>>]
         ELSE The({
              IF zone > 0
              THEN The({IF host1.err \/ host2.err \/ host3.err
                        THEN [err |-> TRUE, str |-> <<>>]
                        ELSE [err |-> FALSE,
                              str |-> host1.str \o host2.str \o host3.str] :
                           host1 \in {unescape(SubSeq(host, 1, zone - 1), "encodeHost")},
                           host2 \in {unescape(SubSeq(host, zone, i - 1), "encodeZone")},
                           host3 \in {unescape(SubSeq(host, i, Len(host)), "encodeHost")}})
              ELSE unescape(host, "encodeHost") :
                 zone \in {IndexPercent25(SubSeq(host, 1, i - 1))}}) :
            i \in {LastIndex(host, "]")}})
    ELSE The({IF i # 0 /\ ~validOptionalPort(SubSeq(host, i, Len(host)))
              THEN [err |-> TRUE, str |-> <<>>]
              ELSE unescape(host, "encodeHost") :
                 i \in {LastIndex(host, ":")}})

\* net/url validUserinfo
validUserinfo(s) ==
    \A i \in 1..Len(s) :
        \/ IsLetter(s[i]) \/ IsDigit(s[i])
        \/ s[i] \in {"-", ".", "_", ":", "~", "!", "$", "&", "'", "(", ")", "*", "+",
                     ",", ";", "=", "%", "@"}

\* a *url.Userinfo: nil, or a user name with or without a password
NoUser == [set |-> FALSE, username |-> <<>>, passwordSet |-> FALSE, password |-> <<>>]

\* net/url parseAuthority: the user information before the last @ and the
\* host after it
parseAuthority(authority) ==
    The({
      IF host.err THEN [err |-> TRUE, user |-> NoUser, host |-> <<>>]
      ELSE IF i = 0 THEN [err |-> FALSE, user |-> NoUser, host |-> host.str]
      ELSE The({
           The({
             IF \/ ~validUserinfo(SubSeq(authority, 1, i - 1))
                \/ username.err
                \/ (parts.found /\ password.err)
             THEN [err |-> TRUE, user |-> NoUser, host |-> <<>>]
             ELSE [err |-> FALSE,
                   user |-> [set |-> TRUE, username |-> username.str,
                             passwordSet |-> parts.found,
                             password |-> IF parts.found THEN password.str ELSE <<>>],
                   host |-> host.str] :
                username \in {unescape(parts.before, "encodeUserPassword")},
                password \in {unescape(parts.after, "encodeUserPassword")}}) :
              parts \in {Cut(SubSeq(authority, 1, i - 1), ":")}}) :
         i \in {LastIndex(authority, "@")},
         host \in {parseHost(SubSeq(authority, LastIndex(authority, "@") + 1,
                                    Len(authority)))}})

\* the bytes stringContainsCTLByte rejects: those below the space, and DEL
ControlBytes == {ByteChar(n) : n \in (0..31) \cup {127}}

\* the zero url.URL, ok telling that url.Parse returned no error
NoURL ==
    [ok |-> FALSE, scheme |-> <<>>, opaque |-> <<>>, user |-> NoUser, host |-> <<>>,
     path |-> <<>>, rawPath |-> <<>>, omitHost |-> FALSE, forceQuery |-> FALSE,
     rawQuery |-> <<>>, fragment |-> <<>>, rawFragment |-> <<>>]

\* net/url parse(rawURL, viaRequest = false) of the text before the fragment
parse(rawURL) ==
    IF \E i \in 1..Len(rawURL) : rawURL[i] \in ControlBytes
    THEN NoURL
    ELSE IF rawURL = <<"*">> THEN [NoURL EXCEPT !.ok = TRUE, !.path = <<"*">>]
    ELSE The({
      IF s.err THEN NoURL
      ELSE The({
        The({
          IF (rest = <<>> \/ Head(rest) # "/") /\ url.scheme # <<>>
          THEN [url EXCEPT !.opaque = rest]
          ELSE IF /\ rest = <<>> \/ Head(rest) # "/"
                  /\ Index(Cut(rest, "/").before, ":") # 0
          THEN NoURL
          ELSE The({
            The({
              The({
                IF auth.err \/ path.err THEN NoURL
                ELSE [url EXCEPT
                         !.user = auth.user,
                         !.host = auth.host,
                         !.omitHost = /\ ~slashes /\ url.scheme # <<>>
                                      /\ rest # <<>> /\ Head(rest) = "/",
                         !.path = path.str,
                         !.rawPath = IF escape(path.str, "encodePath") = p
                                     THEN <<>> ELSE p] :
                   path \in {unescape(p, "encodePath")}}) :
                 auth \in {IF slashes
                           THEN parseAuthority(IF cut = 0 THEN after
                                               ELSE SubSeq(after, 1, cut - 1))
                           ELSE [err |-> FALSE, user |-> NoUser, host |-> <<>>]},
                 p \in {IF ~slashes THEN rest
                        ELSE IF cut = 0 THEN <<>>
                        ELSE SubSeq(after, cut, Len(after))}}) :
               slashes \in {/\ Len(rest) >= 2 /\ rest[1] = "/" /\ rest[2] = "/"
                            /\ url.scheme # <<>> \/ Len(rest) = 2 \/ rest[3] # "/"},
               after \in {SubSeq(rest, 3, Len(rest))},
               cut \in {Index(SubSeq(rest, 3, Len(rest)), "/")}}) :
            rest \in {IF force THEN SubSeq(s.rest, 1, Len(s.rest) - 1) ELSE q.before},
            url \in {[NoURL EXCEPT !.ok = TRUE, !.scheme = ToLower(s.scheme),
                                   !.forceQuery = force,
                                   !.rawQuery = IF force THEN <<>> ELSE q.after]}}) :
           force \in {/\ s.rest # <<>>
                      /\ s.rest[Len(s.rest)] = "?"
                      /\ Index(s.rest, "?") = Len(s.rest)},
           q \in {Cut(s.rest, "?")}}) :
         s \in {getScheme(rawURL, 1)}})

\* url.Parse: the fragment after the first # is cut off and unescaped, the
\* rest is parsed
URLParse(raw) ==
    The({
      The({
        IF ~url.ok THEN NoURL
        ELSE IF f.after = <<>> THEN url
        ELSE IF frag.err THEN NoURL
        ELSE [url EXCEPT
                 !.fragment = frag.str,
                 !.rawFragment = IF escape(frag.str, "encodeFragment") = f.after
                                 THEN <<>> ELSE f.after] :
           url \in {parse(f.before)},
           frag \in {unescape(f.after, "encodeFragment")}}) :
         f \in {Cut(raw, "#")}})

\* URL.EscapedPath and URL.EscapedFragment: the raw text when it is a valid
\* encoding of the value, else the escaped value
EscapedPath(u) ==
    IF /\ u.rawPath # <<>>
       /\ validEncoded(u.rawPath, "encodePath")
       /\ unescape(u.rawPath, "encodePath") = [err |-> FALSE, str |-> u.path]
    THEN u.rawPath
    ELSE IF u.path = <<"*">> THEN u.path
    ELSE escape(u.path, "encodePath")
EscapedFragment(u) ==
    IF /\ u.rawFragment # <<>>
       /\ validEncoded(u.rawFragment, "encodeFragment")
       /\ unescape(u.rawFragment, "encodeFragment") = [err |-> FALSE, str |-> u.fragment]
    THEN u.rawFragment
    ELSE escape(u.fragment, "encodeFragment")

\* Userinfo.String()
UserinfoString(user) ==
    escape(user.username, "encodeUserPassword")
    \o (IF user.passwordSet
        THEN <<":">> \o escape(user.password, "encodeUserPassword") ELSE <<>>)

\* URL.String()
URLString(u) ==
    The({
      The({
        The({
          scheme
          \o (IF u.opaque # <<>> THEN u.opaque
              ELSE authority \o slash \o dot \o path)
          \o (IF u.forceQuery \/ u.rawQuery # <<>> THEN <<"?">> \o u.rawQuery ELSE <<>>)
          \o (IF u.fragment # <<>> THEN <<"#">> \o EscapedFragment(u) ELSE <<>>) :
             dot \in {IF /\ scheme \o authority \o slash = <<>>
                         /\ Index(Cut(path, "/").before, ":") # 0
                      THEN <<".", "/">> ELSE <<>>}}) :
           slash \in {IF path # <<>> /\ Head(path) # "/" /\ u.host # <<>>
                      THEN <<"/">> ELSE <<>>}}) :
         scheme \in {IF u.scheme # <<>> THEN u.scheme \o <<":">> ELSE <<>>},
         authority \in
             {IF u.scheme = <<>> /\ u.host = <<>> /\ ~u.user.set THEN <<>>
              ELSE IF u.omitHost /\ u.host = <<>> /\ ~u.user.set THEN <<>>
              ELSE (IF u.host # <<>> \/ u.path # <<>> \/ u.user.set
                    THEN <<"/", "/">> ELSE <<>>)
                   \o (IF u.user.set THEN UserinfoString(u.user) \o <<"@">> ELSE <<>>)
                   \o escape(u.host, "encodeHost")},
         path \in {EscapedPath(u)}})

-----------------------------------------------------------------------------
(* The APIExportEndpointSlice reconciler *)

\* a condition of the slice: absent, or set by MarkTrue / MarkFalse
NoCondition == [status |-> "absent", reason |-> ""]
MarkTrue == [status |-> "True", reason |-> ""]
MarkFalse(reason) == [status |-> "False", reason |-> reason]

\* virtualworkspacesoptions.DefaultRootPathPrefix, apiexportbuilder.VirtualWorkspaceName
DefaultRootPathPrefix == <<"/", "s", "e", "r", "v", "i", "c", "e", "s">>
VirtualWorkspaceName == <<"a", "p", "i", "e", "x", "p", "o", "r", "t">>

\* the URL updateEndpoints derives from one shard's virtualWorkspaceURL: none
\* for an empty or unparsable URL
ShardEndpoint(virtualWorkspaceURL, apiExport) ==
    IF virtualWorkspaceURL = <<>> THEN {}
    ELSE The({IF ~u.ok THEN {}
              ELSE {URLString([u EXCEPT !.path =
                        PathJoin(<<u.path, DefaultRootPathPrefix, VirtualWorkspaceName,
                                   StringOf(apiExport.cluster),
                                   StringOf(apiExport.name)>>)])} :
                 u \in {URLParse(virtualWorkspaceURL)}})

\* updateEndpoints adding to the endpoints the status already has
updateEndpoints_PreviousKept(sl, apiExport, listed, listErr) ==
    IF listErr THEN [slice |-> sl, err |-> TRUE]
    ELSE LET desiredURLs == UNION {ShardEndpoint(listed[i], apiExport) :
                                      i \in 1..Len(listed)}
             previous == {sl.endpoints[i] : i \in 1..Len(sl.endpoints)}
         IN [slice |-> [sl EXCEPT !.endpoints = SortedList(desiredURLs \cup previous)],
             err |-> FALSE]

\* updateEndpoints with the URLs appended in the order of the shards
updateEndpoints_Appended(sl, apiExport, listed, listErr) ==
    IF listErr THEN [slice |-> sl, err |-> TRUE]
    ELSE [slice |-> [sl EXCEPT !.endpoints =
                        Flatten([i \in 1..Len(listed) |->
                            LET d == ShardEndpoint(listed[i], apiExport)
                            IN IF d = {} THEN <<>> ELSE <<CHOOSE x \in d : TRUE>>])],
          err |-> FALSE]

\* updateEndpoints: lists the shards, collects the URLs in a set and replaces
\* the endpoints of the status by the sorted list of the set
updateEndpoints(sl, apiExport, listed, listErr) ==
    IF listErr THEN [slice |-> sl, err |-> TRUE]
    ELSE LET desiredURLs == UNION {ShardEndpoint(listed[i], apiExport) :
                                      i \in 1..Len(listed)}
         IN [slice |-> [sl EXCEPT !.endpoints = SortedList(desiredURLs)],
             err |-> FALSE]

\* reconcile with the endpoints kept when the export is not found
endpointsReconciler_reconcile_KeepsEndpoints(sl, lookup, listed, listErr) ==
    IF lookup.status = "NotFound"
    THEN [slice |-> [sl EXCEPT !.valid = MarkFalse("APIExportNotFound")],
          err |-> FALSE]
    ELSE IF lookup.status # "ok"
    THEN [slice |-> [sl EXCEPT !.valid = MarkFalse("InternalError")], err |-> TRUE]
    ELSE The({IF r.err
              THEN [r EXCEPT !.slice.ready = MarkFalse("ErrorGeneratingURLs")]
              ELSE [r EXCEPT !.slice.ready = MarkTrue] :
                 r \in {updateEndpoints([sl EXCEPT !.valid = MarkTrue],
                                        lookup.obj, listed, listErr)}})

\* reconcile with the URLsReady condition left alone when listing fails
endpointsReconciler_reconcile_ReadyNotMarked(sl, lookup, listed, listErr) ==
    IF lookup.status = "NotFound"
    THEN [slice |-> [sl EXCEPT !.endpoints = <<>>,
                               !.valid = MarkFalse("APIExportNotFound")],
          err |-> FALSE]
    ELSE IF lookup.status # "ok"
    THEN [slice |-> [sl EXCEPT !.valid = MarkFalse("InternalError")], err |-> TRUE]
    ELSE The({IF r.err THEN r
              ELSE [r EXCEPT !.slice.ready = MarkTrue] :
                 r \in {updateEndpoints([sl EXCEPT !.valid = MarkTrue],
                                        lookup.obj, listed, listErr)}})

\* a failed lookup handled like NotFound, URLsReady marked False on both
endpointsReconciler_reconcile_LookupErrorResets(sl, lookup, listed, listErr) ==
    IF lookup.status = "NotFound"
    THEN [slice |-> [sl EXCEPT !.endpoints = <<>>,
                               !.valid = MarkFalse("APIExportNotFound"),
                               !.ready = MarkFalse("ErrorGeneratingURLs")],
          err |-> FALSE]
    ELSE IF lookup.status # "ok"
    THEN [slice |-> [sl EXCEPT !.endpoints = <<>>,
                               !.valid = MarkFalse("InternalError"),
                               !.ready = MarkFalse("ErrorGeneratingURLs")],
          err |-> TRUE]
    ELSE The({IF r.err
              THEN [r EXCEPT !.slice.ready = MarkFalse("ErrorGeneratingURLs")]
              ELSE [r EXCEPT !.slice.ready = MarkTrue] :
                 r \in {updateEndpoints([sl EXCEPT !.valid = MarkTrue],
                                        lookup.obj, listed, listErr)}})

\* endpointsReconciler.reconcile; lookup is what getAPIExport returns
endpointsReconciler_reconcile(sl, lookup, listed, listErr) ==
    IF lookup.status = "NotFound"
    THEN [slice |-> [sl EXCEPT !.endpoints = <<>>,
                               !.valid = MarkFalse("APIExportNotFound")],
          err |-> FALSE]
    ELSE IF lookup.status # "ok"
    THEN [slice |-> [sl EXCEPT !.valid = MarkFalse("InternalError")], err |-> TRUE]
    ELSE The({IF r.err
              THEN [r EXCEPT !.slice.ready = MarkFalse("ErrorGeneratingURLs")]
              ELSE [r EXCEPT !.slice.ready = MarkTrue] :
                 r \in {updateEndpoints([sl EXCEPT !.valid = MarkTrue],
                                        lookup.obj, listed, listErr)}})

\* what getAPIExport can return to the reconciler
SliceLookups ==
    {[status |-> "ok", obj |-> e] : e \in Exports}
    \cup {[status |-> "NotFound", obj |-> NoObj], [status |-> "Error", obj |-> NoObj]}

\* a reconcile of the slice; hlog keeps its inputs, the status it found and
\* whether it returned an error
SliceReconcile(lookup, listErr) ==
    /\ \E r \in {endpointsReconciler_reconcile(slice, lookup, shards, listErr)} :
          /\ slice' = r.slice
          /\ hlog' = << <<"reconcile", [lookup |-> lookup, listErr |-> listErr]>>,
                       slice, r.err >>
    /\ UNCHANGED <<shards, annotationVars, reconcileVars, ctrl, ctxDone,
                   startPc, queue, workerVars, cacheVars, deletedCRDTracker,
                   panicked, handlerVars>>

-----------------------------------------------------------------------------
(* The extra-annotation sync.  An annotation map is a function from keys to
   values, the keys being character sequences; a merge patch of
   metadata.annotations is the keys it sets with their values and the keys it
   sets to null. *)

\* strings.HasPrefix(str, prefix)
HasPrefix(str, prefix) ==
    Len(str) >= Len(prefix) /\ SubSeq(str, 1, Len(prefix)) = prefix

\* apisv1alpha1.AnnotationAPIExportExtraKeyPrefix: extra.api.kcp.io/
AnnotationAPIExportExtraKeyPrefix ==
    <<"e", "x", "t", "r", "a", ".", "a", "p", "i", ".", "k", "c", "p", ".",
      "i", "o", "/">>

NoPatch == [set |-> <<>>, remove |-> {}]

\* syncExtraAnnotationPatch with every annotation of a1 copied
syncExtraAnnotationPatch_AllKeys(a1, a2) ==
    [set |-> [k \in {x \in DOMAIN a1 : x \notin DOMAIN a2 \/ a1[x] # a2[x]} |-> a1[k]],
     remove |-> {k \in DOMAIN a2 :
                    HasPrefix(k, AnnotationAPIExportExtraKeyPrefix)
                    /\ k \notin DOMAIN a1}]

\* syncExtraAnnotationPatch without the removal of keys a1 lacks
syncExtraAnnotationPatch_NoRemoval(a1, a2) ==
    [set |-> [k \in {x \in DOMAIN a1 :
                        /\ HasPrefix(x, AnnotationAPIExportExtraKeyPrefix)
                        /\ (x \notin DOMAIN a2 \/ a1[x] # a2[x])} |-> a1[k]],
     remove |-> {}]

\* syncExtraAnnotationPatch(a1, a2): the prefixed keys of a1 that a2 lacks or
\* holds with another value are set, the prefixed keys of a2 that a1 lacks
\* are set to null; NoPatch stands for the nil it returns when both are empty
syncExtraAnnotationPatch(a1, a2) ==
    [set |-> [k \in {x \in DOMAIN a1 :
                        /\ HasPrefix(x, AnnotationAPIExportExtraKeyPrefix)
                        /\ (x \notin DOMAIN a2 \/ a1[x] # a2[x])} |-> a1[k]],
     remove |-> {k \in DOMAIN a2 :
                    HasPrefix(k, AnnotationAPIExportExtraKeyPrefix)
                    /\ k \notin DOMAIN a1}]

\* a patch that never counts as empty
PatchIsEmpty_Never(patch) == FALSE

\* len(patchBytes) == 0
PatchIsEmpty(patch) == DOMAIN patch.set = {} /\ patch.remove = {}

\* the API server applying a merge patch of metadata.annotations
ApplyMergePatch(obj, patch) ==
    [obj EXCEPT !.annotations =
        [k \in (DOMAIN obj.annotations \ patch.remove) \cup DOMAIN patch.set |->
            IF k \in DOMAIN patch.set THEN patch.set[k] ELSE obj.annotations[k]]]

\* the binding the annotation sync is exercised on, and the export it names
AnnotatedBinding == B1
AnnotatedExport == E1

\* the key of a binding in the work queue
KeyOf(b) == ToClusterAwareKey(b.cluster, b.name)

\* an export as the API server or the export informer holds it: its
\* annotations, or nothing when it has been deleted
NoExport == [exists |-> FALSE, annotations |-> <<>>]
AnnotatedExportObj(a) == [exists |-> TRUE, annotations |-> a]

\* a binding as the API server or the binding informer holds it: its
\* annotations, whether spec.reference.export is set, and other, which
\* stands for all its other fields
NoBinding ==
    [exists |-> FALSE, annotations |-> <<>>, hasExportRef |-> FALSE,
     other |-> "unchanged"]
AnnotatedBindingObj(a, hasExportRef) ==
    [exists |-> TRUE, annotations |-> a, hasExportRef |-> hasExportRef,
     other |-> "unchanged"]

\* the watch events the API server has sent and an informer has not applied
\* yet, per informer (named by its listener)
Watchers == {BindingListener, CRDListener, ExportListener("local")}
NoWatchEvents == [g \in Watchers |-> <<>>]
Watched(g, event) == [watchEvents EXCEPT ![g] = Append(@, event)]

\* no process call under way for a binding
Idle == [pc |-> "idle"]

\* lastPass where it is not kept, and for a binding no process call has
\* returned for
NoPasses == <<>>
NoPass == <<>>

\* getAPIExport of the extra-annotation controller: the local export
\* index only
extraannotationsync_getAPIExport(path, name, fault) ==
    ByPathAndName(localExports, path, name, fault)

\* what process gets from getAPIExport for the binding: the path of the
\* reference, or the binding's cluster when that is empty
AnnotationExportLookup(fault) ==
    extraannotationsync_getAPIExport(
        IF AnnotatedBinding.exportPath = <<>>
        THEN ClusterPath(AnnotatedBinding.cluster)
        ELSE AnnotatedBinding.exportPath,
        AnnotatedBinding.exportName, fault).status

\* what a process call of the extra-annotation controller holds: what its
\* last read of a cache returned, the binding the lister returned, the export
\* the index returned, the patch computed from the two, and the error it is
\* to return
AnnotationFrame(at) ==
    [pc |-> at, got |-> "", binding |-> NoBinding, export |-> NoExport,
     patch |-> NoPatch, err |-> FALSE]

AnnotationUnchanged ==
    UNCHANGED <<shards, slice, apiBindings, bindingInformer, boundCRDs,
                crdInformer, passes, lastPass, ctrl, ctxDone, startPc, workerVars, globalExports,
                localSchemas, globalSchemas, deletedCRDTracker, panicked>>

\* somebody sets the annotations of the export to a
AnnotationExportEdited(a) ==
    /\ handlerEvents > 0
    /\ annExport.exists
    /\ a # annExport.annotations
    /\ handlerEvents' = handlerEvents - 1
    /\ annExport' = AnnotatedExportObj(a)
    /\ watchEvents' = Watched(ExportListener("local"), <<"Modified", AnnotatedExportObj(a)>>)
    /\ AnnotationUnchanged
    /\ UNCHANGED <<annBinding, annLister, annExportLister, inflight, queue,
                   bindingCache, localExports, hlog, notifications, handlers>>

\* somebody deletes the export
AnnotationExportDeleted ==
    /\ handlerEvents > 0
    /\ annExport.exists
    /\ handlerEvents' = handlerEvents - 1
    /\ annExport' = NoExport
    /\ watchEvents' = Watched(ExportListener("local"), <<"Deleted", annExport>>)
    /\ AnnotationUnchanged
    /\ UNCHANGED <<annBinding, annLister, annExportLister, inflight, queue,
                   bindingCache, localExports, hlog, notifications, handlers>>

\* somebody deletes the binding
AnnotationBindingDeleted ==
    /\ handlerEvents > 0
    /\ annBinding.exists
    /\ handlerEvents' = handlerEvents - 1
    /\ annBinding' = NoBinding
    /\ watchEvents' = Watched(BindingListener, <<"Deleted", annBinding>>)
    /\ AnnotationUnchanged
    /\ UNCHANGED <<annExport, annLister, annExportLister, inflight, queue,
                   bindingCache, localExports, hlog, notifications, handlers>>

\* the export informer with a DeleteFunc that enqueues like the others
AnnotationExportInformer_DeleteHandled ==
    /\ watchEvents[ExportListener("local")] # <<>>
    /\ watchEvents' = [watchEvents EXCEPT ![ExportListener("local")] = Tail(@)]
    /\ \E e \in {Head(watchEvents[ExportListener("local")])} :
          /\ IF e[1] = "Deleted"
             THEN /\ localExports' = localExports \ {AnnotatedExport}
                  /\ annExportLister' = NoExport
             ELSE /\ localExports' = localExports \cup {AnnotatedExport}
                  /\ annExportLister' = e[2]
          /\ notifications' =
                 [notifications EXCEPT ![ExportListener("local")] =
                      Append(@, <<"enqueueAPIExport", AnnotatedExport>>)]
    /\ AnnotationUnchanged
    /\ UNCHANGED <<annExport, annBinding, annLister, inflight, queue,
                   bindingCache, hlog, handlers, handlerEvents>>

\* the export informer applies the next watch event to its indexer; the
\* controller registers AddFunc and UpdateFunc only, so a delete is handed
\* to no handler
AnnotationExportInformer ==
    /\ watchEvents[ExportListener("local")] # <<>>
    /\ watchEvents' = [watchEvents EXCEPT ![ExportListener("local")] = Tail(@)]
    /\ \E e \in {Head(watchEvents[ExportListener("local")])} :
          IF e[1] = "Deleted"
          THEN /\ localExports' = localExports \ {AnnotatedExport}
               /\ annExportLister' = NoExport
               /\ UNCHANGED notifications
          ELSE /\ localExports' = localExports \cup {AnnotatedExport}
               /\ annExportLister' = e[2]
               /\ notifications' =
                      [notifications EXCEPT ![ExportListener("local")] =
                           Append(@, <<"enqueueAPIExport", AnnotatedExport>>)]
    /\ AnnotationUnchanged
    /\ UNCHANGED <<annExport, annBinding, annLister, inflight, queue,
                   bindingCache, hlog, handlers, handlerEvents>>

\* the binding informer applies the next watch event to its indexer; the
\* controller registers AddFunc and UpdateFunc only
AnnotationBindingInformer ==
    /\ watchEvents[BindingListener] # <<>>
    /\ watchEvents' = [watchEvents EXCEPT ![BindingListener] = Tail(@)]
    /\ \E e \in {Head(watchEvents[BindingListener])} :
          IF e[1] = "Deleted"
          THEN /\ bindingCache' = bindingCache \ {AnnotatedBinding}
               /\ annLister' = NoBinding
               /\ UNCHANGED notifications
          ELSE /\ bindingCache' = bindingCache \cup {AnnotatedBinding}
               /\ annLister' = e[2]
               /\ notifications' =
                      [notifications EXCEPT ![BindingListener] =
                           Append(@, <<"enqueueAPIBinding", AnnotatedBinding>>)]
    /\ AnnotationUnchanged
    /\ UNCHANGED <<annExport, annBinding, annExportLister, inflight, queue,
                   localExports, hlog, handlers, handlerEvents>>

\* the listener g, running no handler, takes the first of the events handed
\* to it and calls the handler; hlog keeps what a DeleteFunc of the CRD
\* informer does
ListenerRuns(g) ==
    /\ notifications[g] # <<>>
    /\ notifications' = [notifications EXCEPT ![g] = Tail(@)]
    /\ \E n \in {Head(notifications[g])} :
       \E r \in {HandlerFunc(n[1], n[2])} :
           HandlerBegins(g, n[1], n[2], r, n[1] = "DeleteFunc")
    /\ UNCHANGED <<objectVars, ctrl, ctxDone, startPc, workerVars, cacheVars,
                   queue, deletedCRDTracker, handlerEvents>>

\* the listener g, running no handler, takes the first of the events handed
\* to it and calls the handler, in a specification that leaves the export
\* indexes, the schema listers and the binding index as they are: a read
\* of the handler returns the same whenever it is made, so the reads are
\* made now and the calls of queue.Add and deletedCRDTracker.Add are left
\* to make; a handler that panics after a read without a call before it
\* panics now; order is the order in which an index returns exports
ListenerRunsOn(g, order) ==
    /\ notifications[g] # <<>>
    /\ notifications' = [notifications EXCEPT ![g] = Tail(@)]
    /\ \E n \in {Head(notifications[g])} :
       \E first \in {HandlerFunc(n[1], n[2])} :
       \E todo \in {HandlerCalls(first.calls, order)} :
       \E r \in {IF first.panic THEN first
                 ELSE IF todo # <<>>
                         /\ Head(todo)[1] \notin {"queue.Add", "deletedCRDTracker.Add"}
                 THEN HandlerRead(Head(todo), order)
                 ELSE Ran(todo)} :
           HandlerBegins(g, n[1], n[2], r, n[1] = "DeleteFunc")
    /\ UNCHANGED <<objectVars, ctrl, ctxDone, startPc, workerVars, cacheVars,
                   queue, deletedCRDTracker, handlerEvents>>

\* the process call for the binding goes on with frame f, having touched
\* nothing but what it holds
AnnotationGoesOn(f) ==
    /\ inflight' = [inflight EXCEPT ![AnnotatedBinding] = f]
    /\ AnnotationUnchanged
    /\ UNCHANGED <<annExport, annBinding, annLister, annExportLister,
                   watchEvents, queue, bindingCache, localExports, hlog,
                   handlerVars>>

\* a worker takes the binding's key from the queue and calls process
AnnotationGet ==
    /\ queue.items # <<>>
    /\ GetItem(queue) = KeyOf(AnnotatedBinding)
    /\ inflight[AnnotatedBinding] = Idle
    /\ queue' = GetPop(queue)
    /\ inflight' = [inflight EXCEPT ![AnnotatedBinding] = AnnotationFrame("listerGet")]
    /\ AnnotationUnchanged
    /\ UNCHANGED <<annExport, annBinding, annLister, annExportLister,
                   watchEvents, bindingCache, localExports, hlog, handlerVars>>

\* process reads the binding from the lister: gone, it returns nil; without
\* an export reference, it returns nil as well
AnnotationListerGet(fault) ==
    /\ inflight[AnnotatedBinding].pc = "listerGet"
    /\ \E f \in {inflight[AnnotatedBinding]} :
       \E got \in {ListerGet(KeyOf(AnnotatedBinding), fault)} :
          AnnotationGoesOn(
              IF got = "NotFound" THEN [f EXCEPT !.pc = "queueCall", !.got = got]
              ELSE IF got # "ok"
              THEN [f EXCEPT !.pc = "queueCall", !.got = got, !.err = TRUE]
              ELSE IF ~annLister.hasExportRef
              THEN [f EXCEPT !.pc = "queueCall", !.got = got, !.binding = annLister]
              ELSE [f EXCEPT !.pc = "getAPIExport", !.got = got,
                             !.binding = annLister])

\* process reads the export from the local export index: not found, it
\* returns nil; found, it computes the patch from the annotations of the
\* export and of the binding it holds, and returns nil when that is empty
AnnotationGetAPIExport(fault) ==
    /\ inflight[AnnotatedBinding].pc = "getAPIExport"
    /\ \E f \in {inflight[AnnotatedBinding]} :
       \E got \in {AnnotationExportLookup(fault)} :
       \E patch \in {syncExtraAnnotationPatch(annExportLister.annotations,
                                              f.binding.annotations)} :
          AnnotationGoesOn(
              IF got = "NotFound" THEN [f EXCEPT !.pc = "queueCall", !.got = got]
              ELSE IF got # "ok"
              THEN [f EXCEPT !.pc = "queueCall", !.got = got, !.err = TRUE]
              ELSE IF PatchIsEmpty(patch)
              THEN [f EXCEPT !.pc = "queueCall", !.got = got,
                             !.export = annExportLister]
              ELSE [f EXCEPT !.pc = "Patch", !.got = got,
                             !.export = annExportLister, !.patch = patch])

\* what hlog holds when the API server has applied a patch: the export and
\* the binding the patch was computed from, the patch, and the binding as
\* the API server stored it before and after
AnnotationPatched(f, before, after) ==
    << <<"Patch", f.export, f.binding, f.patch, before, after>> >>

\* the Patch call writing the binding's prefixed annotations to the export
\* as well
AnnotationPatch_WritesExport(patchErr) ==
    /\ inflight[AnnotatedBinding].pc = "Patch"
    /\ \E f \in {inflight[AnnotatedBinding]} :
          IF patchErr \/ ~annBinding.exists
          THEN /\ inflight' = [inflight EXCEPT ![AnnotatedBinding] =
                                   [f EXCEPT !.pc = "queueCall", !.err = TRUE]]
               /\ UNCHANGED <<annBinding, annExport, watchEvents, hlog>>
          ELSE \E after \in {ApplyMergePatch(annBinding, f.patch)} :
               /\ inflight' = [inflight EXCEPT ![AnnotatedBinding] =
                                   [f EXCEPT !.pc = "queueCall"]]
               /\ annBinding' = after
               /\ annExport' =
                      [annExport EXCEPT !.annotations =
                          [k \in DOMAIN annExport.annotations \cup f.patch.remove |->
                              IF k \in DOMAIN annExport.annotations
                              THEN annExport.annotations[k]
                              ELSE f.binding.annotations[k]]]
               /\ watchEvents' = IF after = annBinding THEN watchEvents
                                 ELSE Watched(BindingListener, <<"Modified", after>>)
               /\ hlog' = AnnotationPatched(f, annBinding, after)
    /\ AnnotationUnchanged
    /\ UNCHANGED <<annLister, annExportLister, queue, bindingCache,
                   localExports, handlerVars>>

\* process sends the patch: the API server applies it to the binding it
\* stores now and, the binding having changed, sends the watch event; the
\* call fails when the binding is gone or when patchErr says so
AnnotationPatch(patchErr) ==
    /\ inflight[AnnotatedBinding].pc = "Patch"
    /\ \E f \in {inflight[AnnotatedBinding]} :
          IF patchErr \/ ~annBinding.exists
          THEN /\ inflight' = [inflight EXCEPT ![AnnotatedBinding] =
                                   [f EXCEPT !.pc = "queueCall", !.err = TRUE]]
               /\ UNCHANGED <<annBinding, watchEvents, hlog>>
          ELSE \E after \in {ApplyMergePatch(annBinding, f.patch)} :
               /\ inflight' = [inflight EXCEPT ![AnnotatedBinding] =
                                   [f EXCEPT !.pc = "queueCall"]]
               /\ annBinding' = after
               /\ watchEvents' = IF after = annBinding THEN watchEvents
                                 ELSE Watched(BindingListener, <<"Modified", after>>)
               /\ hlog' = AnnotationPatched(f, annBinding, after)
    /\ AnnotationUnchanged
    /\ UNCHANGED <<annExport, annLister, annExportLister, queue, bindingCache,
                   localExports, handlerVars>>

\* process has returned: processNextWorkItem requeues the key rate-limited
\* on an error and forgets it otherwise
AnnotationQueueCall ==
    /\ inflight[AnnotatedBinding].pc = "queueCall"
    /\ \E f \in {inflight[AnnotatedBinding]} :
          /\ queue' = QueueCall(extraannotationsync_requeue(
                                    [requeue |-> FALSE, err |-> f.err]),
                                queue, KeyOf(AnnotatedBinding))
          /\ inflight' = [inflight EXCEPT ![AnnotatedBinding] = [f EXCEPT !.pc = "Done"]]
    /\ AnnotationUnchanged
    /\ UNCHANGED <<annExport, annBinding, annLister, annExportLister,
                   watchEvents, bindingCache, localExports, hlog, handlerVars>>

\* the deferred queue.Done of processNextWorkItem
AnnotationDone ==
    /\ inflight[AnnotatedBinding].pc = "Done"
    /\ queue' = Done(queue, KeyOf(AnnotatedBinding))
    /\ inflight' = [inflight EXCEPT ![AnnotatedBinding] = Idle]
    /\ AnnotationUnchanged
    /\ UNCHANGED <<annExport, annBinding, annLister, annExportLister,
                   watchEvents, bindingCache, localExports, hlog, handlerVars>>

\* a patch is computed for the export and the binding held
PatchComputed ==
    /\ hlog = <<>>
    /\ hlog' = << <<"syncExtraAnnotationPatch", annExport, annBinding,
                    syncExtraAnnotationPatch(annExport.annotations,
                                             annBinding.annotations)>> >>
    /\ UNCHANGED <<objectVars, ctrl, ctxDone, startPc, workerVars, cacheVars,
                   queue, deletedCRDTracker, panicked, handlerVars>>

\* the patch computed is applied to the binding
PatchApplied ==
    /\ hlog # <<>>
    /\ hlog[1][1] = "syncExtraAnnotationPatch"
    /\ annBinding' = ApplyMergePatch(annBinding, hlog[1][4])
    /\ hlog' = << <<"ApplyMergePatch", annExport, annBinding, hlog[1][4]>> >>
    /\ UNCHANGED <<shards, slice, annExport, annLister, annExportLister,
                   reconcileVars, ctrl, ctxDone, startPc, workerVars, cacheVars,
                   queue, deletedCRDTracker, panicked, handlerVars>>

\* the patch is computed again for the export and the patched binding
PatchRecomputed ==
    /\ hlog # <<>>
    /\ hlog[1][1] = "ApplyMergePatch"
    /\ hlog' = << <<"again", annExport, hlog[1][3], hlog[1][4],
                    syncExtraAnnotationPatch(annExport.annotations,
                                             annBinding.annotations)>> >>
    /\ UNCHANGED <<objectVars, ctrl, ctxDone, startPc, workerVars, cacheVars,
                   queue, deletedCRDTracker, panicked, handlerVars>>

-----------------------------------------------------------------------------
(* The APIBinding controller at work.  Bindings b1 and b4 live in consumer
   cluster c2: b1 binds export e of c1 (schema s), b4 binds export g of c3
   (schema t), and both schemas define widgets.example.io; b3 lives in c1
   and binds export f, which advertises schema s as well.  The exports
   have one identity and no permission claims.  A process call makes one
   access to a cache, to the deleted-CRD tracker, to the API server or to
   the queue per step, so that everything else may move between two of its
   accesses.  The API server sends a watch event for every write; an
   informer applies the events one by one to its store and hands each to
   its listener, which runs the handlers.  What reconcile does with what it
   reads follows the description of the reconcile: the export is resolved,
   then its schemas, then the bindings of the cluster are listed for the
   conflict check, then each schema is materialized. *)

E3 == APIExportObj("c3", "g", <<>>, {"t"})
S3 == APIResourceSchemaObj("c3", "t")
B4 == APIBindingObj("c2", "b4", <<"c3">>, "g")

ReconcileBindings == {B1, B4}
ReconcileExports == {E1, E3}
ReconcileSchemas == {S1, S3}

\* the (group, resource) a schema defines
GroupResource(schema) ==
    CASE schema = S1 -> "widgets.example.io"
      [] schema = S3 -> "widgets.example.io"

\* the name of the bound CRD of a schema, a function of its cluster and name
BoundCRDName(schema) ==
    CASE schema = S1 -> "n1"
      [] schema = S3 -> "n5"

\* metadata.creationTimestamp of a binding: b1 was created first
CreationTimestamp(b) ==
    CASE b = B1 -> 1
      [] b = B2 -> 2
      [] b = B3 -> 3
      [] b = B4 -> 4

\* the resource definition a schema is materialized as; established is its
\* Established condition
BoundCRD(schema, established) ==
    [crd |-> CRDObj(SystemBoundCRDsClusterName, BoundCRDName(schema),
                    schema.cluster, schema.name),
     established |-> established]

NewBindingStatus ==
    [phase |-> "", boundResources |-> {},
     exportValid |-> NoCondition, upToDate |-> NoCondition]

\* listAPIBindings(clusterName): the bindings of the cluster in the informer
listAPIBindings(clusterName) == {o \in DOMAIN bindingInformer : o.cluster = clusterName}

\* getCRD(clusterName, name): the CRD lister, {} for NotFound
getCRD(clusterName, name) ==
    {c \in crdInformer : c.crd.cluster = clusterName /\ c.crd.name = name}

\* createCRD on the API server: a plain Create, AlreadyExists when a
\* definition of that name is stored
createCRD(stored, c) ==
    IF \E x \in stored : x.crd.cluster = c.crd.cluster /\ x.crd.name = c.crd.name
    THEN [status |-> "AlreadyExists", stored |-> stored]
    ELSE [status |-> "ok", stored |-> stored \cup {c}]

\* the path of the export a binding names: the binding's own cluster when
\* the reference has no path
ExportPath(b) ==
    IF b.exportPath = <<>> THEN ClusterPath(b.cluster) ELSE b.exportPath

\* what a process call of the APIBinding controller holds.  old is the
\* binding as the lister returned it.  of is the binding whose export is
\* being resolved (the binding itself, then the bindings it may lose to),
\* export what getAPIExport returned for the binding itself, exportCluster
\* the cluster of the export being resolved, names the schema names still to
\* look up and name the one looked up now, own the schemas of the binding's
\* export that resolved and wanted their number.  others is what
\* listAPIBindings returned, pending the bindings among them whose export is
\* still to be resolved, rivals the schemas those exports advertise,
\* conflict the schemas that lose the conflict check.  todo are the schemas
\* still to materialize, cur the one being materialized, crd what getCRD
\* returned for it and tracked what the tracker said; established, created
\* and collided collect the outcomes.  status, requeue and err are what
\* reconcile returned, commitErr whether commit failed.  deleted is the name
\* of the resource definition whose DeleteFunc added the key this call took,
\* when hlog tells.
BindingFrame(at) ==
    [pc |-> at, old |-> NewBindingStatus, of |-> NoObj, export |-> "",
     exportCluster |-> "", names |-> {}, name |-> "", own |-> {}, wanted |-> 0,
     others |-> <<>>, pending |-> {}, rivals |-> {}, conflict |-> {},
     todo |-> {}, cur |-> NoObj, crd |-> {}, tracked |-> FALSE,
     established |-> {}, created |-> {}, collided |-> {},
     status |-> NewBindingStatus, requeue |-> FALSE, err |-> FALSE,
     commitErr |-> FALSE, deleted |-> ""]

\* reconcile step 4, the conflict check on what the process call has read:
\* another binding of the cluster already binds the (group, resource) of
\* the schema through another schema, or a binding of the cluster created
\* earlier claims it through the export it names
NamingConflict(f, schema) ==
    \/ \E o \in DOMAIN f.others :
           \E r \in f.others[o].boundResources :
               GroupResource(r) = GroupResource(schema) /\ r # schema
    \/ \E r \in f.rivals :
           GroupResource(r) = GroupResource(schema) /\ r # schema

\* reconcile returning an error when the export is not found
ReconcileResult_NotFoundIsError(f) ==
    IF f.export # "ok"
    THEN [status |-> f.old, requeue |-> FALSE, err |-> TRUE]
    ELSE
    LET allBound == f.established = f.own /\ Cardinality(f.own) = f.wanted
        upToDate == IF f.conflict # {} THEN MarkFalse("NamingConflict")
                    ELSE IF f.collided # {} THEN MarkFalse("InternalError")
                    ELSE IF allBound THEN MarkTrue
                    ELSE MarkFalse("WaitingForEstablished")
    IN [status |-> [phase |-> IF allBound THEN "Bound" ELSE "Binding",
                    boundResources |-> f.established,
                    exportValid |-> MarkTrue,
                    upToDate |-> upToDate],
        requeue |-> f.created # {}, err |-> FALSE]

\* reconcile steps 1, 6 and 7 on what the process call has read and done:
\* an export that is not found clears boundResources and is no error;
\* otherwise boundResources are the schemas whose CRD was found
\* established, the phase is Bound when those are all the schemas of the
\* export, and a requeue is asked for when a CRD was created in this pass
ReconcileResult(f) ==
    IF f.export = "NotFound"
    THEN [status |-> [f.old EXCEPT !.exportValid = MarkFalse("APIExportNotFound"),
                                   !.boundResources = {}],
          requeue |-> FALSE, err |-> FALSE]
    ELSE IF f.export # "ok"
    THEN [status |-> f.old, requeue |-> FALSE, err |-> TRUE]
    ELSE
    LET allBound == f.established = f.own /\ Cardinality(f.own) = f.wanted
        upToDate == IF f.conflict # {} THEN MarkFalse("NamingConflict")
                    ELSE IF f.collided # {} THEN MarkFalse("InternalError")
                    ELSE IF allBound THEN MarkTrue
                    ELSE MarkFalse("WaitingForEstablished")
    IN [status |-> [phase |-> IF allBound THEN "Bound" ELSE "Binding",
                    boundResources |-> f.established,
                    exportValid |-> MarkTrue,
                    upToDate |-> upToDate],
        requeue |-> f.created # {}, err |-> FALSE]

\* reconcile has returned with frame f: process commits when the status
\* differs from the one it read and returns otherwise; from here on it
\* holds the status read, what getAPIExport returned, the status to write
\* and what reconcile returned
Reconciled(f) ==
    The({[BindingFrame(IF r.status # f.old THEN "commit" ELSE "queueCall")
              EXCEPT !.old = f.old, !.export = f.export, !.status = r.status,
                     !.requeue = r.requeue, !.err = r.err,
                     !.deleted = f.deleted]
         : r \in {ReconcileResult(f)}})

\* reconcile goes on to materialize the next schema, or returns when none
\* is left
NextSchema(f) ==
    IF f.todo = {} THEN Reconciled(f)
    ELSE The({[f EXCEPT !.pc = "getCRD", !.cur = x, !.todo = @ \ {x},
                        !.crd = {}, !.tracked = FALSE]
              : x \in {CHOOSE x \in f.todo : TRUE}})

\* the conflict check goes on to resolve the export of the next binding
\* created earlier, or, none being left, settles which schemas lose
NextRival(f) ==
    IF f.pending # {}
    THEN The({[f EXCEPT !.pc = "getAPIExport", !.of = o, !.pending = @ \ {o}]
              : o \in {CHOOSE o \in f.pending : TRUE}})
    ELSE The({NextSchema([f EXCEPT !.conflict = conflict, !.todo = f.own \ conflict,
                                   !.of = NoObj, !.exportCluster = "",
                                   !.others = <<>>, !.rivals = {}])
              : conflict \in {{x \in f.own : NamingConflict(f, x)}}})

\* every schema name of the export being resolved has been looked up
SchemasResolved(b, f) ==
    IF f.of = b THEN [f EXCEPT !.pc = "listAPIBindings"]
    ELSE NextRival(f)

\* getAPIExport has returned r for the export of f.of
ExportResolved(b, f, r) ==
    IF f.of = b
    THEN IF r.status = "ok"
         THEN IF r.obj.latestResourceSchemas = {}
              THEN [f EXCEPT !.export = "ok", !.pc = "listAPIBindings"]
              ELSE [f EXCEPT !.export = "ok", !.pc = "getAPIResourceSchema",
                             !.exportCluster = r.obj.cluster,
                             !.names = r.obj.latestResourceSchemas,
                             !.wanted = Cardinality(r.obj.latestResourceSchemas)]
         ELSE Reconciled([f EXCEPT !.export = r.status])
    ELSE IF r.status = "ok" /\ r.obj.latestResourceSchemas # {}
         THEN [f EXCEPT !.pc = "getAPIResourceSchema",
                        !.exportCluster = r.obj.cluster,
                        !.names = r.obj.latestResourceSchemas]
         ELSE NextRival(f)

\* no bound on the process calls
Unbounded == 0 - 1

\* what the API server stores of what a process call for binding b reads
\* and writes
Stored(b) ==
    <<apiBindings[b], boundCRDs, localExports, globalExports, localSchemas,
      globalSchemas>>

BindingUnchanged ==
    UNCHANGED <<shards, slice, annotationVars, passes, lastPass, ctrl, ctxDone,
                startPc, workerVars, cacheVars, panicked>>

\* the process call of binding b goes on with frame f, having touched
\* nothing but what it holds
BindingGoesOn(b, f) ==
    /\ inflight' = [inflight EXCEPT ![b] = f]
    /\ BindingUnchanged
    /\ UNCHANGED <<apiBindings, bindingInformer, boundCRDs, crdInformer,
                   watchEvents, queue, deletedCRDTracker, hlog, handlerVars>>

\* hlog holds the accesses of a DeleteFunc that has returned, and they
\* include queue.Add of key k
AddedByDeleteFunc(k) ==
    /\ hlog # <<>>
    /\ hlog[1][1] = "DeleteFunc"
    /\ \E i \in 2..Len(hlog) : hlog[i] = <<"queue.Add", k>>

\* a worker has taken key k since that DeleteFunc returned
Taken(k) == \E i \in 2..Len(hlog) : hlog[i] = <<"queue.Get", k>>

\* a worker that is free takes the key of binding b from the head of the
\* queue and calls process, as long as the specification allows another
\* process call; hlog keeps the first Get of a key that the last DeleteFunc
\* added
BindingGet(b) ==
    /\ queue.items # <<>>
    /\ GetItem(queue) = KeyOf(b)
    /\ inflight[b] = Idle
    /\ Cardinality({o \in DOMAIN inflight : inflight[o] # Idle}) < NumThreads
    /\ passes # 0
    /\ passes' = IF passes = Unbounded THEN passes ELSE passes - 1
    /\ queue' = GetPop(queue)
    /\ \E first \in {AddedByDeleteFunc(KeyOf(b)) /\ ~Taken(KeyOf(b))} :
          /\ inflight' = [inflight EXCEPT ![b] =
                             [BindingFrame("listerGet") EXCEPT
                                 !.deleted = IF first THEN hlog[1][2].name ELSE ""]]
          /\ hlog' = IF first THEN Append(hlog, <<"queue.Get", KeyOf(b)>>)
                     ELSE hlog
    /\ UNCHANGED <<shards, slice, annotationVars, lastPass, ctrl, ctxDone,
                   startPc, workerVars, cacheVars, panicked>>
    /\ UNCHANGED <<apiBindings, bindingInformer, boundCRDs, crdInformer,
                   watchEvents, deletedCRDTracker, handlerVars>>

\* process reads the binding from the lister; when that fails it returns
\* without an error; reconcile begins with the export of the binding
BindingListerGet(b) ==
    /\ inflight[b].pc = "listerGet"
    /\ \E f \in {inflight[b]} :
          BindingGoesOn(b,
              IF ListerGet(KeyOf(b), FALSE) # "ok"
              THEN [f EXCEPT !.pc = "queueCall"]
              ELSE [f EXCEPT !.pc = "getAPIExport", !.old = bindingInformer[b],
                             !.status = bindingInformer[b], !.of = b])

\* getAPIExport: the local export index, then, on NotFound, the global one
ReconcileGetAPIExport(b) ==
    /\ inflight[b].pc \in {"getAPIExport", "getAPIExportGlobal"}
    /\ \E f \in {inflight[b]} :
       \E r \in {ByPathAndName(IF f.pc = "getAPIExport" THEN localExports
                               ELSE globalExports,
                               ExportPath(f.of), f.of.exportName, FALSE)} :
          BindingGoesOn(b,
              IF r.status = "NotFound" /\ f.pc = "getAPIExport"
              THEN [f EXCEPT !.pc = "getAPIExportGlobal"]
              ELSE ExportResolved(b, f, r))

\* getAPIResourceSchema for one schema name of the export being resolved:
\* the local schema lister, then, on NotFound, the global one
ReconcileGetAPIResourceSchema(b) ==
    /\ inflight[b].pc \in {"getAPIResourceSchema", "getAPIResourceSchemaGlobal"}
    /\ \E f \in {inflight[b]} :
       \E n \in IF f.pc = "getAPIResourceSchema" THEN f.names ELSE {f.name} :
       \E r \in {SchemaListerGet(IF f.pc = "getAPIResourceSchema" THEN localSchemas
                                 ELSE globalSchemas,
                                 f.exportCluster, n, FALSE)} :
          BindingGoesOn(b,
              IF r.status = "NotFound" /\ f.pc = "getAPIResourceSchema"
              THEN [f EXCEPT !.pc = "getAPIResourceSchemaGlobal", !.name = n,
                             !.names = @ \ {n}]
              ELSE The({IF g.names = {} THEN SchemasResolved(b, g)
                        ELSE [g EXCEPT !.pc = "getAPIResourceSchema"]
                        : g \in {[f EXCEPT
                                    !.names = @ \ {n}, !.name = "",
                                    !.own = IF f.of = b /\ r.status = "ok"
                                            THEN @ \cup {r.obj} ELSE @,
                                    !.rivals = IF f.of # b /\ r.status = "ok"
                                               THEN @ \cup {r.obj} ELSE @]}}))

\* listAPIBindings for the conflict check: the other bindings of the
\* cluster as the binding lister holds them
ReconcileListAPIBindings(b) ==
    /\ inflight[b].pc = "listAPIBindings"
    /\ \E f \in {inflight[b]} :
       \E listed \in {listAPIBindings(b.cluster) \ {b}} :
          BindingGoesOn(b,
              NextRival([f EXCEPT
                  !.others = [o \in listed |-> bindingInformer[o]],
                  !.pending = {o \in listed :
                                  CreationTimestamp(o) < CreationTimestamp(b)}]))

\* getCRD for the schema being materialized
ReconcileGetCRD(b) ==
    /\ inflight[b].pc = "getCRD"
    /\ \E f \in {inflight[b]} :
          BindingGoesOn(b,
              [f EXCEPT !.pc = "deletedCRDTracker.Has",
                        !.crd = getCRD(SystemBoundCRDsClusterName,
                                       BoundCRDName(f.cur))])

\* reconcile step 5 without the look into the deleted-CRD tracker
ReconcileTrackerHas_IgnoresTracker(b) ==
    /\ inflight[b].pc = "deletedCRDTracker.Has"
    /\ \E f \in {inflight[b]} :
          BindingGoesOn(b,
              IF f.crd = {}
              THEN [f EXCEPT !.pc = "createCRD"]
              ELSE IF \E c \in f.crd : \/ c.crd.schemaCluster # f.cur.cluster
                                       \/ c.crd.schemaName # f.cur.name
              THEN NextSchema([f EXCEPT !.collided = @ \cup {f.cur}])
              ELSE IF \E c \in f.crd : c.established
              THEN NextSchema([f EXCEPT !.established = @ \cup {f.cur}])
              ELSE NextSchema(f))

\* reconcile step 5 on the definition getCRD returned: none, or one whose
\* name is in the deleted-CRD tracker, is to be created; one with other
\* schema annotations is a collision; one that is established is bound
ReconcileTrackerHas(b) ==
    /\ inflight[b].pc = "deletedCRDTracker.Has"
    /\ \E f \in {inflight[b]} :
       \E tracked \in {BoundCRDName(f.cur) \in deletedCRDTracker} :
          BindingGoesOn(b,
              IF f.crd = {} \/ tracked
              THEN [f EXCEPT !.pc = "createCRD", !.tracked = tracked]
              ELSE IF \E c \in f.crd : \/ c.crd.schemaCluster # f.cur.cluster
                                       \/ c.crd.schemaName # f.cur.name
              THEN NextSchema([f EXCEPT !.collided = @ \cup {f.cur}])
              ELSE IF \E c \in f.crd : c.established
              THEN NextSchema([f EXCEPT !.established = @ \cup {f.cur}])
              ELSE NextSchema(f))

\* createCRD for the schema being materialized: the API server stores the
\* definition and sends the watch event, or refuses one it has
ReconcileCreateCRD(b) ==
    /\ inflight[b].pc = "createCRD"
    /\ \E f \in {inflight[b]} :
       \E res \in {createCRD(boundCRDs, BoundCRD(f.cur, FALSE))} :
          /\ boundCRDs' = res.stored
          /\ watchEvents' = IF res.status = "ok"
                            THEN Watched(CRDListener, <<"Added", BoundCRD(f.cur, FALSE)>>)
                            ELSE watchEvents
          /\ inflight' = [inflight EXCEPT ![b] =
                             [f EXCEPT !.pc = "deletedCRDTracker.Remove",
                                       !.created = @ \cup {f.cur}]]
    /\ BindingUnchanged
    /\ UNCHANGED <<apiBindings, bindingInformer, crdInformer, queue,
                   deletedCRDTracker, hlog, handlerVars>>

\* reconcile with the deleted-CRD tracker never cleaned
ReconcileTrackerRemove_TrackerKept(b) ==
    /\ inflight[b].pc = "deletedCRDTracker.Remove"
    /\ deletedCRDTracker' = deletedCRDTracker
    /\ inflight' = [inflight EXCEPT ![b] = NextSchema(inflight[b])]
    /\ BindingUnchanged
    /\ UNCHANGED <<apiBindings, bindingInformer, boundCRDs, crdInformer,
                   watchEvents, queue, hlog, handlerVars>>

\* the definition is there: reconcile removes its name from the deleted-CRD
\* tracker and goes on to the next schema
ReconcileTrackerRemove(b) ==
    /\ inflight[b].pc = "deletedCRDTracker.Remove"
    /\ deletedCRDTracker' = deletedCRDTracker \ {BoundCRDName(inflight[b].cur)}
    /\ inflight' = [inflight EXCEPT ![b] = NextSchema(inflight[b])]
    /\ BindingUnchanged
    /\ UNCHANGED <<apiBindings, bindingInformer, boundCRDs, crdInformer,
                   watchEvents, queue, hlog, handlerVars>>

\* the status the API server stores when it applies the patch that turns
\* old into new
ApplyStatusPatch(stored, old, new) ==
    [k \in DOMAIN stored |-> IF new[k] # old[k] THEN new[k] ELSE stored[k]]

\* commit deleting the resource definitions the binding no longer binds
BindingCommit_DeletesUnboundCRDs(b, commitErr) ==
    /\ inflight[b].pc = "commit"
    /\ \E f \in {inflight[b]} :
       \E stored \in {ApplyStatusPatch(apiBindings[b], f.old, f.status)} :
          /\ inflight' = [inflight EXCEPT ![b] =
                             [f EXCEPT !.pc = "queueCall", !.commitErr = commitErr]]
          /\ IF commitErr
             THEN UNCHANGED <<apiBindings, watchEvents, boundCRDs>>
             ELSE /\ apiBindings' = [apiBindings EXCEPT ![b] = stored]
                  /\ watchEvents' = IF stored = apiBindings[b] THEN watchEvents
                                    ELSE Watched(BindingListener, <<"Modified", b, stored>>)
                  /\ boundCRDs' =
                         {c \in boundCRDs :
                             \A x \in f.old.boundResources \ f.status.boundResources :
                                 c.crd.name # BoundCRDName(x)}
    /\ BindingUnchanged
    /\ UNCHANGED <<bindingInformer, crdInformer, queue, deletedCRDTracker,
                   hlog, handlerVars>>

\* commit: the status reconcile returned differs from the one read, so the
\* patch of the difference goes to the API server, which applies it to the
\* binding it stores and, the binding having changed, sends the watch
\* event; commitErr makes the call fail
BindingCommit(b, commitErr) ==
    /\ inflight[b].pc = "commit"
    /\ \E f \in {inflight[b]} :
       \E stored \in {ApplyStatusPatch(apiBindings[b], f.old, f.status)} :
          /\ inflight' = [inflight EXCEPT ![b] =
                             [f EXCEPT !.pc = "queueCall", !.commitErr = commitErr]]
          /\ IF commitErr
             THEN UNCHANGED <<apiBindings, watchEvents>>
             ELSE /\ apiBindings' = [apiBindings EXCEPT ![b] = stored]
                  /\ watchEvents' = IF stored = apiBindings[b] THEN watchEvents
                                    ELSE Watched(BindingListener, <<"Modified", b, stored>>)
    /\ BindingUnchanged
    /\ UNCHANGED <<bindingInformer, boundCRDs, crdInformer, queue,
                   deletedCRDTracker, hlog, handlerVars>>

\* process has returned: processNextWorkItem requeues the key rate-limited
\* on an error, adds it again when a requeue was asked for, and forgets it
\* otherwise
BindingQueueCall(b) ==
    /\ inflight[b].pc = "queueCall"
    /\ \E f \in {inflight[b]} :
          /\ queue' = QueueCall(apibinding_requeue(
                                    [requeue |-> f.requeue,
                                     err |-> f.err \/ f.commitErr]),
                                queue, KeyOf(b))
          /\ inflight' = [inflight EXCEPT ![b] = [f EXCEPT !.pc = "Done"]]
    /\ BindingUnchanged
    /\ UNCHANGED <<apiBindings, bindingInformer, boundCRDs, crdInformer,
                   watchEvents, deletedCRDTracker, hlog, handlerVars>>

\* the deferred queue.Done of processNextWorkItem; lastPass keeps what the
\* API server stores now when process returned without an error
BindingDone(b) ==
    /\ inflight[b].pc = "Done"
    /\ queue' = Done(queue, KeyOf(b))
    /\ inflight' = [inflight EXCEPT ![b] = Idle]
    /\ lastPass' = IF b \notin DOMAIN lastPass THEN lastPass
                   ELSE [lastPass EXCEPT ![b] =
                            IF inflight[b].err \/ inflight[b].commitErr
                            THEN NoPass ELSE Stored(b)]
    /\ UNCHANGED <<shards, slice, annotationVars, passes, ctrl, ctxDone,
                   startPc, workerVars, cacheVars, panicked>>
    /\ UNCHANGED <<apiBindings, bindingInformer, boundCRDs, crdInformer,
                   watchEvents, deletedCRDTracker, hlog, handlerVars>>

\* the binding informer applies the next watch event to its store and hands
\* it to its listener, which will call UpdateFunc
BindingInformerEvent ==
    /\ watchEvents[BindingListener] # <<>>
    /\ watchEvents' = [watchEvents EXCEPT ![BindingListener] = Tail(@)]
    /\ \E e \in {Head(watchEvents[BindingListener])} :
          /\ bindingInformer' = [bindingInformer EXCEPT ![e[2]] = e[3]]
          /\ notifications' = [notifications EXCEPT ![BindingListener] =
                                   Append(@, <<"enqueueAPIBinding", e[2]>>)]
    /\ BindingUnchanged
    /\ UNCHANGED <<apiBindings, boundCRDs, crdInformer, inflight, queue,
                   deletedCRDTracker, hlog, handlers, handlerEvents>>

\* the CRD informer applies the next watch event to its store and hands it
\* to its listener, which will call AddFunc, UpdateFunc or DeleteFunc behind
\* the filter; tombstone says that the delete is handed over as a
\* DeletedFinalStateUnknown
CRDInformerEvent(tombstone) ==
    /\ watchEvents[CRDListener] # <<>>
    /\ watchEvents' = [watchEvents EXCEPT ![CRDListener] = Tail(@)]
    /\ \E e \in {Head(watchEvents[CRDListener])} :
          /\ tombstone => e[1] = "Deleted"
          /\ crdInformer' = {c \in crdInformer : c.crd # e[2].crd}
                                \cup (IF e[1] = "Deleted" THEN {} ELSE {e[2]})
          /\ notifications' =
                 [notifications EXCEPT ![CRDListener] =
                      Append(@, IF e[1] # "Deleted" THEN <<"enqueueCRD", e[2].crd>>
                                ELSE IF tombstone
                                THEN <<"DeleteFunc", Tombstone(e[2].crd)>>
                                ELSE <<"DeleteFunc", e[2].crd>>)]
    /\ BindingUnchanged
    /\ UNCHANGED <<apiBindings, bindingInformer, boundCRDs, inflight, queue,
                   deletedCRDTracker, hlog, handlers, handlerEvents>>

\* the API server's own controllers establish a stored resource definition
CRDEstablished(c) ==
    /\ c \in boundCRDs
    /\ ~c.established
    /\ boundCRDs' = (boundCRDs \ {c}) \cup {[c EXCEPT !.established = TRUE]}
    /\ watchEvents' = Watched(CRDListener, <<"Modified", [c EXCEPT !.established = TRUE]>>)
    /\ BindingUnchanged
    /\ UNCHANGED <<apiBindings, bindingInformer, crdInformer, inflight, queue,
                   deletedCRDTracker, hlog, handlerVars>>

\* somebody deletes a bound resource definition
CRDDeletedExternally(c) ==
    /\ handlerEvents > 0
    /\ c \in boundCRDs
    /\ handlerEvents' = handlerEvents - 1
    /\ boundCRDs' = boundCRDs \ {c}
    /\ watchEvents' = Watched(CRDListener, <<"Deleted", c>>)
    /\ BindingUnchanged
    /\ UNCHANGED <<apiBindings, bindingInformer, crdInformer, inflight, queue,
                   deletedCRDTracker, hlog, notifications, handlers>>

\* the local export informer stores export e, added, and hands it to its
\* listener
ReconcileExportAdded(e) ==
    /\ handlerEvents > 0
    /\ e \notin localExports
    /\ handlerEvents' = handlerEvents - 1
    /\ localExports' = localExports \cup {e}
    /\ notifications' = [notifications EXCEPT ![ExportListener("local")] =
                             Append(@, <<"enqueueAPIExport", e>>)]
    /\ UNCHANGED <<objectVars, ctrl, ctxDone, startPc, workerVars, bindingCache,
                   globalExports, localSchemas, globalSchemas, queue,
                   deletedCRDTracker, hlog, panicked, handlers>>

\* the local export informer drops export e, deleted, and hands it to its
\* listener
ReconcileExportDeleted(e) ==
    /\ handlerEvents > 0
    /\ e \in localExports
    /\ handlerEvents' = handlerEvents - 1
    /\ localExports' = localExports \ {e}
    /\ notifications' = [notifications EXCEPT ![ExportListener("local")] =
                             Append(@, <<"enqueueAPIExport", e>>)]
    /\ UNCHANGED <<objectVars, ctrl, ctxDone, startPc, workerVars, bindingCache,
                   globalExports, localSchemas, globalSchemas, queue,
                   deletedCRDTracker, hlog, panicked, handlers>>

-----------------------------------------------------------------------------
(* Start, startWorker, processNextWorkItem *)

\* Start(ctx, numThreads): launches the workers, then blocks on ctx.Done()
Start(numThreads) ==
    /\ startPc = "init"
    /\ startPc' = "blocked"
    /\ pc' = [w \in Workers |-> IF w <= numThreads THEN "until" ELSE "off"]
    /\ UNCHANGED <<objectVars, ctrl, ctxDone, queue, key, trace, calls, cacheVars,
                   deletedCRDTracker, hlog, panicked, handlerVars>>

\* the root context is cancelled
Cancel ==
    /\ ~ctxDone
    /\ ctxDone' = TRUE
    /\ UNCHANGED <<objectVars, ctrl, startPc, queue, workerVars, cacheVars,
                   deletedCRDTracker, hlog, panicked, handlerVars>>

\* Start returning without the deferred queue.ShutDown()
StartReturn_NoShutDown ==
    /\ startPc = "blocked"
    /\ ctxDone
    /\ startPc' = "returned"
    /\ UNCHANGED <<objectVars, ctrl, ctxDone, queue, workerVars, cacheVars,
                   deletedCRDTracker, hlog, panicked, handlerVars>>

\* Start wakes up from <-ctx.Done(), runs its deferred queue.ShutDown()
\* and returns
StartReturn ==
    /\ startPc = "blocked"
    /\ ctxDone
    /\ startPc' = "returned"
    /\ queue' = ShutDown(queue)
    /\ UNCHANGED <<objectVars, ctrl, ctxDone, workerVars, cacheVars,
                   deletedCRDTracker, hlog, panicked, handlerVars>>

\* wait.UntilWithContext(ctx, c.startWorker, time.Second): the goroutine
\* calls startWorker unless ctx is already done
UntilWithContext(w) ==
    /\ pc[w] = "until"
    /\ pc' = [pc EXCEPT ![w] = IF ctxDone THEN "exited" ELSE "get"]
    /\ UNCHANGED <<objectVars, ctrl, ctxDone, startPc, queue, key, trace, calls,
                   cacheVars, deletedCRDTracker, hlog, panicked, handlerVars>>

\* Done called right after Get instead of deferred to the return
processNextWorkItem_Get_DoneAtOnce(w) ==
    /\ pc[w] = "get"
    /\ queue.items # <<>>
    /\ queue' = Done(GetPop(queue), GetItem(queue))
    /\ key' = [key EXCEPT ![w] = GetItem(queue)]
    /\ pc' = [pc EXCEPT ![w] = "process"]
    /\ trace' = [trace EXCEPT ![w] = <<>>]
    /\ calls' = [calls EXCEPT ![w] = <<>>]
    /\ UNCHANGED <<objectVars, ctrl, ctxDone, startPc, cacheVars, deletedCRDTracker,
                   hlog, panicked, handlerVars>>

\* processNextWorkItem: k, quit := c.queue.Get() with quit = false
processNextWorkItem_Get(w) ==
    /\ pc[w] = "get"
    /\ queue.items # <<>>
    /\ queue' = GetPop(queue)
    /\ key' = [key EXCEPT ![w] = GetItem(queue)]
    /\ pc' = [pc EXCEPT ![w] = "process"]
    /\ trace' = [trace EXCEPT ![w] = <<>>]
    /\ calls' = [calls EXCEPT ![w] = <<>>]
    /\ UNCHANGED <<objectVars, ctrl, ctxDone, startPc, cacheVars, deletedCRDTracker,
                   hlog, panicked, handlerVars>>

\* processNextWorkItem returning true on quit: startWorker calls it again
processNextWorkItem_Quit_ReturnsTrue(w) ==
    /\ pc[w] = "get"
    /\ GetReady(queue)
    /\ GetQuit(queue)
    /\ UNCHANGED vars

\* processNextWorkItem: Get returns quit = true, processNextWorkItem returns
\* false, startWorker returns and, ctx being done, the goroutine ends
processNextWorkItem_Quit(w) ==
    /\ pc[w] = "get"
    /\ GetReady(queue)
    /\ GetQuit(queue)
    /\ pc' = [pc EXCEPT ![w] = "exited"]
    /\ UNCHANGED <<objectVars, ctrl, ctxDone, startPc, queue, key, trace, calls,
                   cacheVars, deletedCRDTracker, hlog, panicked, handlerVars>>

\* processNextWorkItem of the APIBinding controller: process returns and the
\* key is re-added rate limited, re-added, or forgotten
apibinding_processNextWorkItem(w) ==
    /\ ctrl = APIBindingController
    /\ pc[w] = "process"
    /\ \E in \in APIBindingProcessInputs :
         LET r == apibinding_process(key[w], in)
             op == apibinding_requeue(r)
         IN /\ trace' = [trace EXCEPT ![w] = Append(r.trace, Return(r))]
            /\ queue' = QueueCall(op, queue, key[w])
            /\ calls' = [calls EXCEPT ![w] = Append(@, op)]
    /\ pc' = [pc EXCEPT ![w] = "done"]
    /\ UNCHANGED <<objectVars, ctrl, ctxDone, startPc, key, cacheVars, deletedCRDTracker,
                   hlog, panicked, handlerVars>>

\* processNextWorkItem of the extra annotation controller
extraannotationsync_processNextWorkItem(w) ==
    /\ ctrl = ExtraAnnotationController
    /\ pc[w] = "process"
    /\ \E in \in ExtraAnnotationProcessInputs :
         LET r == extraannotationsync_process(key[w], in)
             op == extraannotationsync_requeue(r)
         IN /\ trace' = [trace EXCEPT ![w] = Append(r.trace, Return(r))]
            /\ queue' = QueueCall(op, queue, key[w])
            /\ calls' = [calls EXCEPT ![w] = Append(@, op)]
    /\ pc' = [pc EXCEPT ![w] = "done"]
    /\ UNCHANGED <<objectVars, ctrl, ctxDone, startPc, key, cacheVars, deletedCRDTracker,
                   hlog, panicked, handlerVars>>

\* the return without the deferred c.queue.Done(key)
processNextWorkItem_Done_Missing(w) ==
    /\ pc[w] = "done"
    /\ calls' = [calls EXCEPT ![w] = Append(@, "Done")]
    /\ pc' = [pc EXCEPT ![w] = "get"]
    /\ key' = [key EXCEPT ![w] = NoKey]
    /\ trace' = [trace EXCEPT ![w] = <<>>]
    /\ UNCHANGED <<objectVars, ctrl, ctxDone, startPc, queue, cacheVars, deletedCRDTracker,
                   hlog, panicked, handlerVars>>

\* processNextWorkItem: the deferred c.queue.Done(key), then the return
processNextWorkItem_Done(w) ==
    /\ pc[w] = "done"
    /\ queue' = Done(queue, key[w])
    /\ calls' = [calls EXCEPT ![w] = Append(@, "Done")]
    /\ pc' = [pc EXCEPT ![w] = "get"]
    /\ key' = [key EXCEPT ![w] = NoKey]
    /\ trace' = [trace EXCEPT ![w] = <<>>]
    /\ UNCHANGED <<objectVars, ctrl, ctxDone, startPc, cacheVars, deletedCRDTracker,
                   hlog, panicked, handlerVars>>

\* the delaying queue's waiting loop: a rate-limited add lands
waitingLoop(k) ==
    /\ k \in queue.waitingForAdd
    /\ queue' = Add([queue EXCEPT !.waitingForAdd = @ \ {k}], k)
    /\ UNCHANGED <<objectVars, ctrl, ctxDone, startPc, workerVars, cacheVars,
                   deletedCRDTracker, hlog, panicked, handlerVars>>

-----------------------------------------------------------------------------
(* The worker harness of one controller *)

InitCommon ==
    /\ ctxDone = FALSE
    /\ startPc = "init"
    /\ queue = NewQueue
    /\ pc = [w \in Workers |-> "off"]
    /\ key = [w \in Workers |-> NoKey]
    /\ trace = [w \in Workers |-> <<>>]
    /\ calls = [w \in Workers |-> <<>>]
    /\ deletedCRDTracker = {}
    /\ hlog = <<>>
    /\ panicked = FALSE
    /\ notifications = [g \in Listeners |-> <<>>]
    /\ handlers = [g \in Listeners |-> NoHandler]

\* a slice nothing has reconciled yet
NewSlice == [endpoints |-> <<>>, valid |-> NoCondition, ready |-> NoCondition]

\* no binding reconciled yet, system:bound-crds empty
ReconcileIdle ==
    /\ apiBindings = [b \in ReconcileBindings |-> NewBindingStatus]
    /\ bindingInformer = [b \in ReconcileBindings |-> NewBindingStatus]
    /\ boundCRDs = {}
    /\ crdInformer = {}
    /\ watchEvents = NoWatchEvents
    /\ inflight = [b \in ReconcileBindings |-> Idle]

ObjectsInit ==
    /\ shards = <<>>
    /\ slice = NewSlice
    /\ annExport = NoExport
    /\ annExportLister = NoExport
    /\ annBinding = NoBinding
    /\ annLister = NoBinding
    /\ ReconcileIdle
    /\ passes = 0
    /\ lastPass = NoPasses

Init ==
    /\ InitCommon
    /\ handlerEvents = 0
    /\ ObjectsInit
    /\ ctrl \in Controllers
    /\ bindingCache = HarnessBindings
    /\ localExports = Exports
    /\ globalExports = {}
    /\ localSchemas = Schemas
    /\ globalSchemas = {}

WorkerStep ==
    \E w \in Workers :
        \/ UntilWithContext(w)
        \/ processNextWorkItem_Get(w)
        \/ processNextWorkItem_Quit(w)
        \/ apibinding_processNextWorkItem(w)
        \/ extraannotationsync_processNextWorkItem(w)
        \/ processNextWorkItem_Done(w)

HarnessEvent == \E b \in HarnessBindings : APIBindingUpdated(b)

Next ==
    \/ \E n \in 1..NumThreads : Start(n)
    \/ Cancel
    \/ StartReturn
    \/ WorkerStep
    \/ HarnessEvent
    \/ \E k \in Keys : waitingLoop(k)

Spec == Init /\ [][Next]_vars

\* The harness under the scheduling the Go runtime gives: a started worker
\* goroutine keeps running, and the delaying queue's waiting loop keeps
\* running until the queue is shut down.
FairSpec ==
    /\ Spec
    /\ \A w \in Workers :
         WF_vars(\/ UntilWithContext(w)
                 \/ processNextWorkItem_Get(w)
                 \/ processNextWorkItem_Quit(w)
                 \/ apibinding_processNextWorkItem(w)
                 \/ extraannotationsync_processNextWorkItem(w)
                 \/ processNextWorkItem_Done(w))
    /\ \A k \in Keys : WF_vars(waitingLoop(k))

\* The event handlers of the APIBinding controller on their own: the
\* informers deliver events, the listeners run the handlers side by side,
\* nothing takes keys off the queue.

\* the events the informers deliver in HandlerSpec
HandlerEvents == 3

HandlerInit ==
    /\ InitCommon
    /\ handlerEvents = HandlerEvents
    /\ ObjectsInit
    /\ ctrl = APIBindingController
    /\ bindingCache = Bindings
    /\ localExports = {}
    /\ globalExports = {}
    /\ localSchemas = {}
    /\ globalSchemas = {}

ExportEvent ==
    \E informer \in Informers, e \in Exports :
        \/ APIExportAdded(informer, e)
        \/ APIExportUpdated(informer, e)
        \/ \E obj \in {e, Tombstone(e)} : APIExportDeleted(informer, e, obj)

SchemaEvent ==
    \E informer \in Informers, s \in Schemas :
        \/ APIResourceSchemaAdded(informer, s)
        \/ APIResourceSchemaUpdated(informer, s)
        \/ \E obj \in {s, Tombstone(s)} : APIResourceSchemaDeleted(informer, s, obj)

BindingEvent ==
    \E b \in Bindings :
        \/ APIBindingAdded(b)
        \/ APIBindingStored(b)
        \/ \E obj \in {b, Tombstone(b)} : APIBindingDeleted(b, obj)

CRDEvent ==
    \E crd \in CRDs :
        \/ CRDAdded(crd)
        \/ CRDUpdated(crd)
        \/ \E obj \in {crd, Tombstone(crd)} : CRDDeleted(obj)

HandlerNext ==
    \/ BindingEvent
    \/ ExportEvent
    \/ SchemaEvent
    \/ CRDEvent
    \/ \E g \in Listeners : RunHandler(g)
    \/ \E g \in Listeners, order \in Orderings(Exports), fault \in BOOLEAN :
           HandlerAccess(g, order, fault)

HandlerSpec == HandlerInit /\ [][HandlerNext]_vars

\* The two-tier lookups on their own, over every content of the four caches.
LookupPaths == {<<"root", "a">>, <<"c1">>, <<"c2">>}
LookupNames == {"e", "f", "s"}
LookupClusters == {"c1", "c2"}

LookupInit ==
    /\ InitCommon
    /\ handlerEvents = 0
    /\ ObjectsInit
    /\ ctrl = APIBindingController
    /\ bindingCache = Bindings
    /\ localExports \in SUBSET Exports
    /\ globalExports \in SUBSET Exports
    /\ localSchemas \in SUBSET Schemas
    /\ globalSchemas \in SUBSET Schemas

LookupNext ==
    \E name \in LookupNames, localFault, globalFault \in BOOLEAN :
        \/ \E path \in LookupPaths :
               GetAPIExport(path, name, localFault, globalFault)
        \/ \E clusterName \in LookupClusters :
               GetAPIResourceSchema(clusterName, name, localFault, globalFault)

LookupSpec == LookupInit /\ [][LookupNext]_vars

\* The endpoint-slice reconciler on its own: any list of at most MaxShards
\* shards, any of the previous statuses, reconciled again and again.
MaxShards == 2

EndpointSliceController == "kcp-apiexportendpointslice"

\* https://a, https://a/, https://a-b, https://b/x/.., https://a/% whose
\* percent sign starts no escape, https://a:b whose port is no number,
\* https://a/%a1 with an escaped byte, and the empty URL
ShardURLs ==
    {Https \o <<"a">>,
     Https \o <<"a", "/">>,
     Https \o <<"a", "-", "b">>,
     Https \o <<"b", "/", "x", "/", ".", ".">>,
     Https \o <<"a", "/", "%">>,
     Https \o <<"a", ":", "b">>,
     Https \o <<"a", "/", "%", "a", "1">>,
     <<>>}

ShardLists == UNION {[1..n -> ShardURLs] : n \in 0..MaxShards}

\* statuses earlier reconciles or other writers may have left
PreviousStatuses ==
    {NewSlice,
     [endpoints |-> <<Https \o <<"k">>, Https \o <<"c">>>>,
      valid |-> MarkTrue, ready |-> MarkTrue],
     [endpoints |-> <<Https \o <<"k">>>>,
      valid |-> MarkFalse("APIExportNotFound"),
      ready |-> MarkFalse("ErrorGeneratingURLs")]}

SliceInit ==
    /\ InitCommon
    /\ handlerEvents = 0
    /\ ctrl = EndpointSliceController
    /\ bindingCache = {}
    /\ localExports = Exports
    /\ globalExports = {}
    /\ localSchemas = {}
    /\ globalSchemas = {}
    /\ shards \in ShardLists
    /\ slice \in PreviousStatuses
    /\ annExport = NoExport
    /\ annExportLister = NoExport
    /\ annBinding = NoBinding
    /\ annLister = NoBinding
    /\ ReconcileIdle
    /\ passes = 0
    /\ lastPass = NoPasses

SliceNext == \E lookup \in SliceLookups, listErr \in BOOLEAN : SliceReconcile(lookup, listErr)

SliceSpec == SliceInit /\ [][SliceNext]_vars
\* The patch function on its own: every pair of annotation maps of the
\* export and the binding over extra.api.kcp.io/a, the prefix itself, and
\* extra.api.kcp.io, which lacks the slash of the prefix; the patch is
\* computed, applied, and computed again.
AnnotationKeys ==
    {AnnotationAPIExportExtraKeyPrefix \o <<"a">>,
     AnnotationAPIExportExtraKeyPrefix,
     SubSeq(AnnotationAPIExportExtraKeyPrefix, 1,
            Len(AnnotationAPIExportExtraKeyPrefix) - 1)}

AnnotationValues == {"1", "2"}

AnnotationMaps == UNION {[ks -> AnnotationValues] : ks \in SUBSET AnnotationKeys}

\* nothing of the APIBinding controller's objects
AnnotationIdle ==
    /\ shards = <<>>
    /\ slice = NewSlice
    /\ ReconcileIdle
    /\ passes = 0
    /\ lastPass = NoPasses

PatchInit ==
    /\ InitCommon
    /\ handlerEvents = 0
    /\ ctrl = ExtraAnnotationController
    /\ bindingCache = {AnnotatedBinding}
    /\ localExports = {AnnotatedExport}
    /\ globalExports = {}
    /\ localSchemas = {}
    /\ globalSchemas = {}
    /\ AnnotationIdle
    /\ annExport \in {AnnotatedExportObj(a) : a \in AnnotationMaps}
    /\ annBinding \in {AnnotatedBindingObj(a, TRUE) : a \in AnnotationMaps}
    /\ annExportLister = annExport
    /\ annLister = annBinding

PatchNext ==
    \/ PatchComputed
    \/ PatchApplied
    \/ PatchRecomputed

PatchSpec == PatchInit /\ [][PatchNext]_vars

\* the times somebody edits or deletes the export or deletes the binding in
\* AnnotationSpec
AnnotationEvents == 1

\* the annotation maps of AnnotationSpec: over extra.api.kcp.io/a and the
\* key without the slash
SyncedKeys ==
    {AnnotationAPIExportExtraKeyPrefix \o <<"a">>,
     SubSeq(AnnotationAPIExportExtraKeyPrefix, 1,
            Len(AnnotationAPIExportExtraKeyPrefix) - 1)}
SyncedMaps == UNION {[ks -> AnnotationValues] : ks \in SUBSET SyncedKeys}

\* The extra-annotation controller at work on one binding and its export:
\* the informers have stored both, the binding's key is queued, and
\* somebody edits or deletes the export or deletes the binding while the
\* controller works.
AnnotationInit ==
    /\ ctxDone = FALSE
    /\ startPc = "init"
    /\ queue = Add(NewQueue, KeyOf(AnnotatedBinding))
    /\ pc = [w \in Workers |-> "off"]
    /\ key = [w \in Workers |-> NoKey]
    /\ trace = [w \in Workers |-> <<>>]
    /\ calls = [w \in Workers |-> <<>>]
    /\ deletedCRDTracker = {}
    /\ hlog = <<>>
    /\ panicked = FALSE
    /\ notifications = [g \in Listeners |-> <<>>]
    /\ handlers = [g \in Listeners |-> NoHandler]
    /\ handlerEvents = AnnotationEvents
    /\ ctrl = ExtraAnnotationController
    /\ bindingCache = {AnnotatedBinding}
    /\ localExports = {AnnotatedExport}
    /\ globalExports = {}
    /\ localSchemas = {}
    /\ globalSchemas = {}
    /\ AnnotationIdle
    /\ annExport \in {AnnotatedExportObj(a) : a \in SyncedMaps}
    /\ annBinding \in {AnnotatedBindingObj(a, ref) : a \in SyncedMaps, ref \in BOOLEAN}
    /\ annExportLister = annExport
    /\ annLister = annBinding

AnnotationListeners == {BindingListener, ExportListener("local")}

AnnotationNext ==
    \/ \E a \in SyncedMaps : AnnotationExportEdited(a)
    \/ AnnotationExportDeleted
    \/ AnnotationBindingDeleted
    \/ AnnotationExportInformer
    \/ AnnotationBindingInformer
    \/ \E g \in AnnotationListeners : ListenerRuns(g)
    \/ \E g \in AnnotationListeners : HandlerAccess(g, <<>>, FALSE)
    \/ AnnotationGet
    \/ \E fault \in BOOLEAN : AnnotationListerGet(fault)
    \/ \E fault \in BOOLEAN : AnnotationGetAPIExport(fault)
    \/ \E patchErr \in BOOLEAN : AnnotationPatch(patchErr)
    \/ AnnotationQueueCall
    \/ AnnotationDone
    \/ waitingLoop(KeyOf(AnnotatedBinding))

AnnotationSpec == AnnotationInit /\ [][AnnotationNext]_vars

\* the status reconcile leaves on a binding whose export resolves to the
\* schemas own, of which those in established have an established CRD
StatusOf(own, established) ==
    ReconcileResult([BindingFrame("return") EXCEPT
                         !.export = "ok", !.own = own,
                         !.wanted = Cardinality(own),
                         !.established = established]).status

\* the status reconcile leaves on a binding whose export is not found
StatusOfNotFound ==
    ReconcileResult([BindingFrame("return") EXCEPT !.export = "NotFound"]).status

\* The APIBinding controller driven by its queue.  bound gives each binding
\* the schemas whose bound CRDs are stored and established.  queued are the
\* bindings whose keys are in the queue, in either order: one without bound
\* CRDs has not been reconciled yet, one with bound CRDs was reconciled when
\* it created them and is queued again now that they are established.  The
\* bindings that are not queued have been reconciled: one with bound CRDs
\* is bound, one without found no export.  The informers show what the API
\* server stores.  events is the number of times somebody changes something
\* from outside, calls_ the number of process calls the workers may begin,
\* kept whether lastPass is kept.
QueueDrivenInit(bindings, queued, bound, exports, schemas, events, calls_, kept) ==
    /\ ctxDone = FALSE
    /\ startPc = "init"
    /\ bindingCache = bindings
    /\ \E keys \in Orderings({KeyOf(b) : b \in queued}) :
           queue = AddAll(NewQueue, keys)
    /\ pc = [w \in Workers |-> "off"]
    /\ key = [w \in Workers |-> NoKey]
    /\ trace = [w \in Workers |-> <<>>]
    /\ calls = [w \in Workers |-> <<>>]
    /\ deletedCRDTracker = {}
    /\ hlog = <<>>
    /\ panicked = FALSE
    /\ notifications = [g \in Listeners |-> <<>>]
    /\ handlers = [g \in Listeners |-> NoHandler]
    /\ ctrl = APIBindingController
    /\ localExports = exports
    /\ globalExports = {}
    /\ localSchemas = schemas
    /\ globalSchemas = {}
    /\ shards = <<>>
    /\ slice = NewSlice
    /\ annExport = NoExport
    /\ annExportLister = NoExport
    /\ annBinding = NoBinding
    /\ annLister = NoBinding
    /\ apiBindings = [b \in bindingCache |->
                         IF b \notin queued
                         THEN IF bound[b] = {} THEN StatusOfNotFound
                              ELSE StatusOf(bound[b], bound[b])
                         ELSE IF bound[b] = {} THEN NewBindingStatus
                         ELSE StatusOf(bound[b], {})]
    /\ bindingInformer = apiBindings
    /\ boundCRDs = {BoundCRD(x, TRUE) : x \in UNION {bound[b] : b \in bindings}}
    /\ crdInformer = boundCRDs
    /\ watchEvents = NoWatchEvents
    /\ inflight = [b \in bindingCache |-> Idle]
    /\ handlerEvents = events
    /\ passes = calls_
    /\ lastPass = IF kept THEN [b \in bindings |-> NoPass] ELSE NoPasses

\* the steps of the worker that holds or takes the key of binding b; at
\* most one of them is enabled
BindingWorkItemStep(b) ==
    \/ BindingGet(b)
    \/ BindingListerGet(b)
    \/ ReconcileGetAPIExport(b)
    \/ ReconcileGetAPIResourceSchema(b)
    \/ ReconcileListAPIBindings(b)
    \/ ReconcileGetCRD(b)
    \/ ReconcileTrackerHas(b)
    \/ ReconcileCreateCRD(b)
    \/ ReconcileTrackerRemove(b)
    \/ \E commitErr \in BOOLEAN : BindingCommit(b, commitErr)
    \/ BindingQueueCall(b)
    \/ BindingDone(b)

\* the controller at work: a worker takes a key and processes it access by
\* access, the informers apply the watch events they received, the API
\* server establishes a stored resource definition, the waiting loop hands
\* over rate-limited keys; commitErrs says whether a commit may fail
QueueDrivenNext(commitErrs) ==
    \/ \E b \in bindingCache : BindingGet(b)
    \/ \E b \in bindingCache : BindingListerGet(b)
    \/ \E b \in bindingCache : ReconcileGetAPIExport(b)
    \/ \E b \in bindingCache : ReconcileGetAPIResourceSchema(b)
    \/ \E b \in bindingCache : ReconcileListAPIBindings(b)
    \/ \E b \in bindingCache : ReconcileGetCRD(b)
    \/ \E b \in bindingCache : ReconcileTrackerHas(b)
    \/ \E b \in bindingCache : ReconcileCreateCRD(b)
    \/ \E b \in bindingCache : ReconcileTrackerRemove(b)
    \/ \E b \in bindingCache, commitErr \in commitErrs : BindingCommit(b, commitErr)
    \/ \E b \in bindingCache : BindingQueueCall(b)
    \/ \E b \in bindingCache : BindingDone(b)
    \/ BindingInformerEvent
    \/ \E tombstone \in BOOLEAN : CRDInformerEvent(tombstone)
    \/ \E c \in boundCRDs : CRDEstablished(c)
    \/ \E b \in bindingCache : waitingLoop(KeyOf(b))

\* the listeners where the caches their handlers read change: a handler
\* makes its accesses one by one
ListenersNext(exports) ==
    \/ \E g \in Watchers : ListenerRuns(g)
    \/ \E g \in Watchers, order \in Orderings(exports) : HandlerAccess(g, order, FALSE)

\* the listeners where the caches their handlers read stay as they are
SteadyListenersNext(exports) ==
    \/ \E g \in Watchers, order \in Orderings(exports) : ListenerRunsOn(g, order)
    \/ \E g \in Watchers, order \in Orderings(exports) : HandlerAccess(g, order, FALSE)

\* the scheduling the runtime gives: a worker takes the key at the head of
\* the queue and goes on with the key it holds, the informers apply what
\* they received, a listener takes the next event handed to it or, running
\* a handler, makes its next access, the waiting loop hands over
\* rate-limited keys, and the API server establishes a stored resource
\* definition
QueueDrivenFairness(bindings) ==
    /\ \A b \in bindings :
         /\ WF_vars(BindingWorkItemStep(b))
         /\ WF_vars(waitingLoop(KeyOf(b)))
    /\ WF_vars(BindingInformerEvent)
    /\ WF_vars(\E tombstone \in BOOLEAN : CRDInformerEvent(tombstone))
    /\ WF_vars(\E c \in boundCRDs : CRDEstablished(c))

\* every listener goes on taking notifications and running its handler
ListenersFairness(exports) ==
    \A g \in Watchers :
        WF_vars(\/ ListenerRuns(g)
                \/ \E order \in Orderings(exports) : HandlerAccess(g, order, FALSE))

\* a commit does not fail forever
CommitFairness(bindings) ==
    \A b \in bindings : SF_vars(BindingCommit(b, FALSE))

\* the times the export is dropped from or added to the local export index,
\* or the bound CRD is deleted from outside, in ReconcileSpec
ReconcileEvents == 1

\* the process calls the workers begin in ReconcileSpec
ReconcilePasses == Unbounded

\* the export that comes and goes
DeletedExports == {E1}

\* b1 on its own: queued and not reconciled yet, with nothing changing from
\* outside; or reconciled when its export had not reached the local export
\* index, and then the export comes; or bound, and then its export goes and
\* comes and its bound CRD gets deleted from outside
ReconcileInit ==
    \/ QueueDrivenInit({B1}, {B1}, [b \in {B1} |-> {}], {E1}, {S1}, 0,
                       ReconcilePasses, FALSE)
    \/ QueueDrivenInit({B1}, {}, [b \in {B1} |-> {}], {}, {S1},
                       ReconcileEvents, ReconcilePasses, FALSE)
    \/ QueueDrivenInit({B1}, {}, [b \in {B1} |-> {S1}], {E1}, {S1},
                       ReconcileEvents, ReconcilePasses, FALSE)

ReconcileNext ==
    \/ QueueDrivenNext(BOOLEAN)
    \/ ListenersNext({E1})
    \/ \E e \in DeletedExports : ReconcileExportAdded(e)
    \/ \E e \in DeletedExports : ReconcileExportDeleted(e)
    \/ \E c \in boundCRDs : CRDDeletedExternally(c)

ReconcileSpec == ReconcileInit /\ [][ReconcileNext]_vars

FairReconcileSpec ==
    /\ ReconcileSpec
    /\ QueueDrivenFairness({B1})
    /\ ListenersFairness({E1})
    /\ CommitFairness({B1})

\* the times the export of b1 is added to the local export index in
\* ConflictSpec
ConflictEvents == 1

\* the process calls the workers begin in ConflictSpec
ConflictPasses == 2

\* the bindings of ConflictSpec
ConflictBindings == {B1, B3, B4}

\* b4 is the only binding and has not been reconciled yet; or b1 and b4, of
\* one cluster, claim the same (group, resource) through different exports:
\* b4 has created its bound CRD, which is established, and is queued again,
\* b1 has not been reconciled yet and its export has not reached the local
\* export index, and b3, of another cluster, is bound to schema s, whose
\* bound CRD is established
ConflictInit ==
    \/ QueueDrivenInit({B4}, {B4}, [b \in {B4} |-> {}],
                       {E3}, ReconcileSchemas, ConflictEvents,
                       ConflictPasses, FALSE)
    \/ QueueDrivenInit(ConflictBindings, ReconcileBindings,
                       [b \in ConflictBindings |->
                           IF b = B4 THEN {S3} ELSE IF b = B3 THEN {S1} ELSE {}],
                       {E2, E3}, ReconcileSchemas, ConflictEvents,
                       ConflictPasses, FALSE)

ConflictNext ==
    \/ QueueDrivenNext(BOOLEAN)
    \/ ListenersNext(Exports \cup ReconcileExports)
    \/ \E e \in DeletedExports : ReconcileExportAdded(e)

ConflictSpec == ConflictInit /\ [][ConflictNext]_vars

\* the process calls the workers begin in IdempotenceSpec
IdempotencePasses == 3

\* b1 on its own, queued and not reconciled yet, nothing changing from
\* outside; lastPass is kept
IdempotenceInit ==
    QueueDrivenInit({B1}, {B1}, [b \in {B1} |-> {}], {E1}, {S1}, 0,
                    IdempotencePasses, TRUE)

IdempotenceNext ==
    \/ QueueDrivenNext(BOOLEAN)
    \/ SteadyListenersNext({E1})

IdempotenceSpec == IdempotenceInit /\ [][IdempotenceNext]_vars

\* the bindings that share a bound CRD
SharedBindings == {B1, B3}

\* the times a bound CRD is deleted from outside in RecreateSpec
RecreateEvents == 1

\* the process calls the workers begin in RecreateSpec
RecreatePasses == 2

\* b1 and b3 bind schema s through the exports e and f and share its bound
\* CRD, which somebody deletes; both are bound, or b1 is queued again after
\* it created the CRD
RecreateInit ==
    \E queued \in {{}, {B1}} :
        QueueDrivenInit(SharedBindings, queued, [b \in SharedBindings |-> {S1}],
                        Exports, Schemas, RecreateEvents, RecreatePasses, FALSE)

RecreateNext ==
    \/ QueueDrivenNext(BOOLEAN)
    \/ SteadyListenersNext(Exports)
    \/ \E c \in boundCRDs : CRDDeletedExternally(c)

RecreateSpec == RecreateInit /\ [][RecreateNext]_vars

-----------------------------------------------------------------------------
(* Claims about the worker harness *)

HarnessKeys == {ToClusterAwareKey(b.cluster, b.name) : b \in HarnessBindings}

\* what process returned, as the trace records it
Returned(w) == trace[w][Len(trace[w])][2]

\* C1: for every key a worker obtains from Get, exactly one of
\* AddRateLimited (process returned an error), Add (no error, requeue
\* requested; APIBinding controller only) and Forget (otherwise) is called,
\* and then Done, before the worker takes another key.
C1_OneRequeueCallThenDone ==
    \A w \in Workers :
        /\ pc[w] = "process" => calls[w] = <<>>
        /\ pc[w] = "done" =>
              calls[w] =
                << IF Returned(w) \in {"err", "requeue+err"} THEN "AddRateLimited"
                   ELSE IF Returned(w) = "requeue" /\ ctrl = APIBindingController
                        THEN "Add"
                   ELSE "Forget" >>
        /\ pc[w] = "done" /\ ctrl = ExtraAnnotationController =>
              Returned(w) \in {"err", "nil"}
        /\ pc[w] \in {"get", "exited"} /\ calls[w] # <<>> =>
              /\ Len(calls[w]) = 2
              /\ calls[w][1] \in
                    IF ctrl = APIBindingController
                    THEN {"AddRateLimited", "Add", "Forget"}
                    ELSE {"AddRateLimited", "Forget"}
              /\ calls[w][2] = "Done"

\* a worker finished a key for which process asked for a requeue without error
C1_Witness ==
    \E w \in Workers : pc[w] = "get" /\ calls[w] = <<"Add", "Done">>

\* C2: no two workers are inside process for the same key at the same time.
C2_NoTwoWorkersOnOneKey ==
    \A w1, w2 \in Workers :
        w1 # w2 /\ pc[w1] = "process" /\ pc[w2] = "process" => key[w1] # key[w2]

\* a key was enqueued again while a worker is inside process for it, and a
\* second worker is idle at Get
C2_Witness ==
    \E w1, w2 \in Workers :
        /\ w1 # w2
        /\ pc[w1] = "process" /\ key[w1] \in queue.dirty
        /\ pc[w2] = "get"

\* C3: a key enqueued while a worker processes it is processed again after
\* that worker's Done.
C3_ReAddedKeyIsProcessedAgain ==
    \A k \in HarnessKeys :
        (k \in queue.processing /\ k \in queue.dirty)
            ~> (k \in queue.processing /\ k \notin queue.dirty)

\* process returned without error or requeue (Forget was called), and in the
\* meantime an event enqueued the key again
C3_Witness ==
    \E w \in Workers :
        /\ pc[w] = "done" /\ calls[w] = <<"Forget">>
        /\ key[w] \in queue.dirty /\ key[w] \in queue.processing

\* C4 as claimed: once Start has returned, no worker is inside process.
C4_NoWorkerInProcessAfterStartReturned ==
    startPc = "returned" => \A w \in Workers : pc[w] # "process"

\* C4 amended: Start returns only after the context is cancelled and with
\* the queue shut down, and nothing else shuts the queue down; it does not
\* wait for the workers.
C4_StartReturnsWithQueueShutDown ==
    /\ startPc = "returned" => ctxDone /\ queue.shuttingDown
    /\ queue.shuttingDown => startPc = "returned"
    /\ queue.shuttingDown => queue.waitingForAdd = {}

\* Start has returned while a worker is still inside process
C4_Witness ==
    startPc = "returned" /\ \E w \in Workers : pc[w] = "process"

-----------------------------------------------------------------------------
(* Claims about the event handlers *)

\* the handler that ended most recently ran as handler, and no handler has
\* made a step since
LastHandler(handler) == hlog # <<>> /\ hlog[1][1] = handler

\* the object the most recent handler ran for; the object a tombstone wraps
LastObj == hlog[1][2]
Unwrapped(obj) == IF IsTombstone(obj) THEN obj.obj ELSE obj

\* the accesses the most recent handler made, and the keys it added
LastCalls == Tail(hlog)
LastAdded == {LastCalls[i][2] : i \in {j \in 1..Len(LastCalls) :
                                         LastCalls[j][1] = "queue.Add"}}

\* the values an event for export e has the binding index read by: the
\* export's path annotation, when it has one, and its logical cluster, each
\* joined with the export's name
ExportValues(e) ==
    (IF e.pathAnnotation # <<>> THEN <<Join(e.pathAnnotation, e.name)>> ELSE <<>>)
    \o <<Join(ClusterPath(e.cluster), e.name)>>

\* the accesses of kind op in a log
Accesses(log, op) == SelectSeq(log, LAMBDA c : c[1] = op)

\* the keys the reads of the binding index in log returned
KeysFound(log) ==
    UNION {c[3] : c \in {log[i] : i \in {j \in 1..Len(log) :
                                          log[j][1] = "apiBindingsIndexer.IndexKeys"}}}

\* log is the run of the export handler for export e: the binding index was
\* read by the values of e, in order; every key a read returned was then
\* looked up once, in the order of the sorted key set; the key of every
\* binding a lookup found was added to the queue, once, right after its
\* lookup; and nothing else was done
ExportHandled(e, log) ==
    /\ \E reads \in {Accesses(log, "apiBindingsIndexer.IndexKeys")} :
           /\ [i \in 1..Len(reads) |-> reads[i][2]] = ExportValues(e)
           /\ SubSeq(log, 1, Len(reads)) = reads
    /\ \E lookups \in {Accesses(log, "apiBindingsIndexer.GetByKey")} :
           /\ [i \in 1..Len(lookups) |-> lookups[i][2]] = List(KeysFound(log))
           /\ \E found \in {SelectSeq(lookups, LAMBDA c : c[3])} :
                  Accesses(log, "queue.Add")
                      = [i \in 1..Len(found) |-> QueueAdd(found[i][2])]
    /\ \A i \in 1..Len(log) :
           /\ log[i][1] \in {"apiBindingsIndexer.IndexKeys",
                              "apiBindingsIndexer.GetByKey", "queue.Add"}
           /\ log[i][1] = "queue.Add" =>
                  i > 1 /\ log[i - 1] = <<"apiBindingsIndexer.GetByKey", log[i][2], TRUE>>
           /\ (log[i][1] = "apiBindingsIndexer.GetByKey" /\ log[i][3]) =>
                  i < Len(log) /\ log[i + 1] = QueueAdd(log[i][2])

\* log is the run of the export handler for the exports of order, one after
\* the other
RECURSIVE ExportsHandled(_, _)
ExportsHandled(order, log) ==
    IF order = <<>> THEN log = <<>>
    ELSE \E n \in 0..Len(log) :
             /\ ExportHandled(Head(order), SubSeq(log, 1, n))
             /\ ExportsHandled(Tail(order), SubSeq(log, n + 1, Len(log)))

\* the exports of an index that reference the schema obj is (or wraps)
ExportsReferencing(indexer, obj) ==
    {e \in indexer : Unwrapped(obj).cluster = e.cluster
                     /\ Unwrapped(obj).name \in e.latestResourceSchemas}


\* the exports the schema handler that ended most recently went by: those
\* the local index returned, those the global index returned when the
\* local index returned none
LastExports == IF hlog[2][2] # {} THEN hlog[2][2] ELSE hlog[3][2]

\* what the schema handler that ended most recently did after its reads of
\* the export indexes
LastRange == SubSeq(hlog, IF hlog[2][2] # {} THEN 3 ELSE 4, Len(hlog))

\* C6 as claimed: a delete delivered in a DeletedFinalStateUnknown is
\* handled like the plain delete of the object it wraps: for a bound CRD the
\* name is added to the deleted-CRD tracker, for a schema the bindings of
\* the exports the indexes return are looked up and enqueued, for an export
\* its bindings are looked up and enqueued, and no handler panics.
C6_TombstoneHandledLikePlainDelete ==
    /\ ~panicked
    /\ (LastHandler("DeleteFunc") /\ IsTombstone(LastObj)
           /\ crdFilterFunc(LastObj.obj)) =>
           /\ Len(hlog) >= 2
           /\ hlog[2] = <<"deletedCRDTracker.Add", LastObj.obj.name>>
           /\ LastObj.obj.name \in deletedCRDTracker
    /\ (LastHandler("enqueueAPIResourceSchema") /\ IsTombstone(LastObj)) =>
           \E order \in Orderings(LastExports) : ExportsHandled(order, LastRange)
    /\ (LastHandler("enqueueAPIExport") /\ IsTombstone(LastObj)) =>
           ExportHandled(LastObj.obj, LastCalls)

\* C7: after the export handler has run for an export (or the tombstone of
\* one), it has read the binding index under the export's path annotation,
\* when the export has one, and under its logical cluster, has looked up
\* every key the index returned, and has added the key of every binding it
\* found to the queue, each once; all of them are in the queue.
C7_ExportEnqueuesItsBindings ==
    LastHandler("enqueueAPIExport") =>
        /\ ExportHandled(Unwrapped(LastObj), LastCalls)
        /\ LastAdded \subseteq queue.dirty

\* an event for export e enqueued b1 (indexed by the path annotation) and
\* b2 (indexed by the logical cluster)
C7_Witness ==
    /\ LastHandler("enqueueAPIExport")
    /\ Unwrapped(LastObj) = E1
    /\ LastCalls[1][3] = {<<"c2", "b1">>}
    /\ LastCalls[2][3] = {<<"c2", "b2">>}
    /\ Accesses(LastCalls, "queue.Add")
           = <<QueueAdd(<<"c2", "b1">>), QueueAdd(<<"c2", "b2">>)>>
    /\ {<<"c2", "b1">>, <<"c2", "b2">>} \subseteq queue.dirty

\* the exports the schema handler that ended most recently could see in the
\* global index: those the index held when the handler read the local
\* index and, when it read the global index, still held then
LastGlobalExports ==
    IF hlog[2][2] = {} /\ Len(hlog) >= 3 THEN hlog[2][3] \cap hlog[3][2]
    ELSE hlog[2][3]

\* some stretch of log is the run of the export handler for export e
HandledIn(e, log) ==
    \E i \in 1..(Len(log) + 1), j \in 0..Len(log) :
        ExportHandled(e, SubSeq(log, i, j))

\* C8 as claimed: after the schema handler has run for a schema, the
\* bindings of every export that references the schema, in the local or in
\* the global export index, have been looked up in the binding index and
\* those found have been enqueued.  (The delete delivered as a tombstone is
\* C6's.)
C8_BindingsOfEveryExportEnqueued ==
    (LastHandler("enqueueAPIResourceSchema") /\ ~IsTombstone(LastObj)) =>
        \A e \in hlog[2][2] \cup LastGlobalExports : HandledIn(e, LastRange)

\* C8 amended: the schema handler looks up and enqueues, export by export,
\* the bindings of the exports referencing the schema that the local index
\* returns; it reads the global index only when the local index returns no
\* such export, and then does the same for the exports the global index
\* returns.  When the event is a tombstone and an index returns an export,
\* the handler panics and adds nothing.
C8_LocalExportsElseGlobalExports ==
    LastHandler("enqueueAPIResourceSchema") =>
        /\ hlog[2][1] = "apiExportsIndexer.ByIndex"
        /\ (\E i \in 2..Len(hlog) : hlog[i][1] = "globalAPIExportsIndexer.ByIndex")
               <=> hlog[2][2] = {}
        /\ hlog[2][2] = {} => hlog[3][1] = "globalAPIExportsIndexer.ByIndex"
        /\ IF IsTombstone(LastObj) /\ LastExports # {}
           THEN panicked /\ LastAdded = {}
           ELSE /\ ~panicked
                /\ \E order \in Orderings(LastExports) :
                       ExportsHandled(order, LastRange)
                /\ LastAdded \subseteq queue.dirty

\* a schema event with export e in the local index and export f only in the
\* global index: the bindings of e were enqueued, the binding of f was not
C8_Witness ==
    /\ LastHandler("enqueueAPIResourceSchema")
    /\ LastObj = S1
    /\ hlog[2][2] = {E1}
    /\ hlog[2][3] = {E2}
    /\ LastAdded = {<<"c2", "b1">>, <<"c2", "b2">>}

\* C9: getAPIExport and getAPIResourceSchema return the local result when
\* the local lookup succeeds, return the result of the global tier when the
\* local lookup returns NotFound, and otherwise return the local error
\* having consulted the local tier only.
C9_GlobalTierOnlyOnLocalNotFound ==
    /\ LastHandler("getAPIExport") =>
           LET a == hlog[1][2]
               r == hlog[2]
               l == ByPathAndName(localExports, a.path, a.name, a.localFault)
               g == ByPathAndName(globalExports, a.path, a.name, a.globalFault)
           IN /\ l.status = "ok" => r = Result("ok", l.obj, <<"local">>)
              /\ l.status = "NotFound" =>
                     r = Result(g.status, g.obj, <<"local", "global">>)
              /\ l.status = "Error" => r.status = "Error" /\ r.tiers = <<"local">>
    /\ LastHandler("getAPIResourceSchema") =>
           LET a == hlog[1][2]
               r == hlog[2]
               l == SchemaListerGet(localSchemas, a.cluster, a.name, a.localFault)
               g == SchemaListerGet(globalSchemas, a.cluster, a.name, a.globalFault)
           IN /\ l.status = "ok" => r = Result("ok", l.obj, <<"local">>)
              /\ l.status = "NotFound" =>
                     r = Result(g.status, g.obj, <<"local", "global">>)
              /\ l.status = "Error" => r.status = "Error" /\ r.tiers = <<"local">>

\* the local export lookup failed with another error while the global index
\* holds the export: the error came back, the global index was not consulted
C9_Witness ==
    /\ LastHandler("getAPIExport")
    /\ hlog[1][2].localFault
    /\ ByPathAndName(globalExports, hlog[1][2].path, hlog[1][2].name, FALSE).status = "ok"
    /\ hlog[2].status = "Error"
    /\ hlog[2].tiers = <<"local">>

Failed(w, call) == \E i \in 1..Len(trace[w]) : trace[w][i] = <<call, "Error">>

\* C10 as claimed: in both controllers a failed cache read of the binding
\* (other than NotFound), a reconcile error and a failed commit or patch all
\* end in AddRateLimited.
C10_TransientFailureIsRateLimited ==
    \A w \in Workers :
        pc[w] = "done"
        /\ (Failed(w, "Get") \/ Failed(w, "reconcile") \/ Failed(w, "commit")
            \/ Failed(w, "Patch"))
        => calls[w] = <<"AddRateLimited">>

\* C10 amended: a reconcile error, a failed commit or patch and, in the extra
\* annotation controller only, a failed cache read of the binding end in
\* AddRateLimited without Forget, the key being held for a later add; in the
\* APIBinding controller a failed cache read ends in Forget.
C10_FailureIsRateLimitedButBindingReadError ==
    \A w \in Workers :
        pc[w] = "done" =>
            /\ (Failed(w, "reconcile") \/ Failed(w, "commit") \/ Failed(w, "Patch")
                \/ (Failed(w, "Get") /\ ctrl = ExtraAnnotationController))
               => /\ calls[w] = <<"AddRateLimited">>
                  /\ Returned(w) \in {"err", "requeue+err"}
                  /\ ~queue.shuttingDown =>
                        key[w] \in queue.waitingForAdd \cup queue.dirty
            /\ Failed(w, "Get") /\ ctrl = APIBindingController
               => calls[w] = <<"Forget">> /\ Returned(w) = "nil"

\* commit failed after a reconcile without error, and the key was re-added
\* rate limited
C10_Witness ==
    \E w \in Workers :
        /\ pc[w] = "done"
        /\ ~Failed(w, "reconcile") /\ Failed(w, "commit")
        /\ calls[w] = <<"AddRateLimited">>

-----------------------------------------------------------------------------
(* Claims about the endpoint-slice reconciler *)

\* the inputs of the most recent slice reconcile, the status it started
\* from and whether it returned an error
SliceInput == hlog[1][2]
SliceBefore == hlog[2]
SliceErr == hlog[3]

\* the URL the slice of export e is to list for a shard whose URL parses
\* to u: u with /services/apiexport/<cluster>/<name> joined to its path
ExpectedURL(u, e) ==
    URLString([u EXCEPT !.path =
        PathJoin(<<u.path, <<"/", "s", "e", "r", "v", "i", "c", "e", "s">>,
                   <<"a", "p", "i", "e", "x", "p", "o", "r", "t">>,
                   StringOf(e.cluster), StringOf(e.name)>>)])

\* https://a/services/apiexport/c1/e and https://a-b/services/apiexport/c1/e
URL_a_c1_e ==
    Https \o <<"a", "/", "s", "e", "r", "v", "i", "c", "e", "s", "/",
               "a", "p", "i", "e", "x", "p", "o", "r", "t", "/", "c", "1", "/", "e">>
URL_ab_c1_e ==
    Https \o <<"a", "-", "b", "/", "s", "e", "r", "v", "i", "c", "e", "s", "/",
               "a", "p", "i", "e", "x", "p", "o", "r", "t", "/", "c", "1", "/", "e">>

\* C11: after a reconcile whose export lookup returned NotFound the status
\* has no endpoints, APIExportValid is False with reason APIExportNotFound,
\* and reconcile returned no error, whatever the status was before.
C11_ExportNotFoundClearsEndpoints ==
    (LastHandler("reconcile") /\ SliceInput.lookup.status = "NotFound") =>
        /\ slice.endpoints = <<>>
        /\ slice.valid = MarkFalse("APIExportNotFound")
        /\ ~SliceErr

\* the export was not found for a slice that listed endpoints and was valid
C11_Witness ==
    /\ LastHandler("reconcile")
    /\ SliceInput.lookup.status = "NotFound"
    /\ SliceBefore.endpoints # <<>>
    /\ SliceBefore.valid = MarkTrue
    /\ slice.endpoints = <<>>

\* C12: after a reconcile that found the export and returned no error, the
\* endpoints are exactly the URLs of the shards whose virtualWorkspaceURL is
\* non-empty and parses, each path-joined with
\* /services/apiexport/<export cluster>/<export name>; nothing else is listed.
C12_EndpointsAreTheShardURLs ==
    (LastHandler("reconcile") /\ SliceInput.lookup.status = "ok" /\ ~SliceErr) =>
        {slice.endpoints[i] : i \in 1..Len(slice.endpoints)}
        = {ExpectedURL(URLParse(shards[i]), SliceInput.lookup.obj) :
              i \in {j \in 1..Len(shards) : shards[j] # <<>> /\ URLParse(shards[j]).ok}}

\* shards https://a/ and one with an empty URL, a status with other
\* endpoints before: the only endpoint is https://a/services/apiexport/c1/e
C12_Witness ==
    /\ LastHandler("reconcile")
    /\ SliceInput.lookup = [status |-> "ok", obj |-> E1]
    /\ ~SliceErr
    /\ shards = <<Https \o <<"a", "/">>, <<>>>>
    /\ SliceBefore.endpoints # <<>>
    /\ slice.endpoints = <<URL_a_c1_e>>

\* C13: after a reconcile that returned no error the endpoints are in
\* strictly ascending byte order, hence without duplicates.
C13_EndpointsSortedNoDuplicates ==
    (LastHandler("reconcile") /\ ~SliceErr) =>
        \A i, j \in 1..Len(slice.endpoints) :
            i < j => StringLess(slice.endpoints[i], slice.endpoints[j])

\* shards https://a then https://a-b: the endpoint of a-b is listed first
C13_Witness ==
    /\ LastHandler("reconcile")
    /\ ~SliceErr
    /\ shards = <<Https \o <<"a">>, Https \o <<"a", "-", "b">>>>
    /\ SliceInput.lookup = [status |-> "ok", obj |-> E1]
    /\ slice.endpoints = <<URL_ab_c1_e, URL_a_c1_e>>

\* C14: after a reconcile that found the export: if listing the shards
\* failed, URLsReady is False with reason ErrorGeneratingURLs, the error was
\* returned and the endpoints are those of before; otherwise URLsReady is
\* True and no error was returned.
C14_URLsReadyFollowsShardListing ==
    (LastHandler("reconcile") /\ SliceInput.lookup.status = "ok") =>
        IF SliceInput.listErr
        THEN /\ slice.ready = MarkFalse("ErrorGeneratingURLs")
             /\ SliceErr
             /\ slice.endpoints = SliceBefore.endpoints
        ELSE /\ slice.ready = MarkTrue
             /\ ~SliceErr

\* listing the shards failed for a slice that was ready and listed endpoints
C14_Witness ==
    /\ LastHandler("reconcile")
    /\ SliceInput.lookup.status = "ok"
    /\ SliceInput.listErr
    /\ SliceBefore.ready = MarkTrue
    /\ SliceBefore.endpoints # <<>>
    /\ slice.endpoints = SliceBefore.endpoints
    /\ slice.ready = MarkFalse("ErrorGeneratingURLs")

-----------------------------------------------------------------------------
(* More claims about the endpoint-slice reconciler *)

\* C29: after a reconcile whose export lookup failed with an error other than
\* NotFound, APIExportValid is False with reason InternalError, the error was
\* returned, and the endpoints and the URLsReady condition are those of
\* before; after one whose lookup gave NotFound, URLsReady is that of before.
C29_LookupFailureLeavesURLsReady ==
    LastHandler("reconcile") =>
        /\ SliceInput.lookup.status = "Error" =>
              /\ slice.valid = MarkFalse("InternalError")
              /\ SliceErr
              /\ slice.endpoints = SliceBefore.endpoints
              /\ slice.ready = SliceBefore.ready
        /\ SliceInput.lookup.status = "NotFound" =>
              slice.ready = SliceBefore.ready

\* the lookup failed for a slice that was ready and listed endpoints
C29_Witness ==
    /\ LastHandler("reconcile")
    /\ SliceInput.lookup.status = "Error"
    /\ SliceBefore.ready = MarkTrue
    /\ SliceBefore.endpoints # <<>>
    /\ slice.endpoints = SliceBefore.endpoints
    /\ slice.ready = MarkTrue
    /\ slice.valid = MarkFalse("InternalError")

-----------------------------------------------------------------------------
(* More claims about the worker harness *)

\* the worker's process call made the call, with any outcome
Called(w, call) == \E i \in 1..Len(trace[w]) : trace[w][i][1] = call

\* C28: in the APIBinding controller a process call that reached reconcile
\* called commit after it, whatever reconcile returned; it returned an error
\* exactly if reconcile or commit failed, and then the one queue call is
\* AddRateLimited, also when reconcile asked for a requeue.
C28_CommitAfterReconcileErrorWins ==
    \A w \in Workers :
        (pc[w] = "done" /\ ctrl = APIBindingController /\ Called(w, "reconcile")) =>
            /\ \E i \in 1..Len(trace[w]) - 1 :
                  /\ trace[w][i][1] = "reconcile"
                  /\ trace[w][i + 1][1] = "commit"
            /\ (Failed(w, "reconcile") \/ Failed(w, "commit"))
               <=> Returned(w) \in {"err", "requeue+err"}
            /\ Returned(w) \in {"err", "requeue+err"} =>
                  calls[w] = <<"AddRateLimited">>

\* reconcile failed and asked for a requeue; commit ran and succeeded; the
\* key was re-added rate limited only
C28_Witness ==
    \E w \in Workers :
        /\ pc[w] = "done"
        /\ ctrl = APIBindingController
        /\ Failed(w, "reconcile")
        /\ \E i \in 1..Len(trace[w]) : trace[w][i] = <<"commit", "ok">>
        /\ Returned(w) = "requeue+err"
        /\ calls[w] = <<"AddRateLimited">>


\* a step of the handler the listener of the CRD informer runs, or the
\* whole of a handler of the CRD informer that makes no access
CRDHandlerStep ==
    \/ handlers'[CRDListener] # handlers[CRDListener]
    \/ /\ hlog' # hlog
       /\ hlog' # <<>>
       /\ hlog'[1][1] \in {"enqueueCRD", "DeleteFunc"}

\* the resource definition is not one of system:bound-crds
OutsideBoundCRDs(crd) == crd.cluster # SystemBoundCRDsClusterName

\* among the accesses made, getAPIResourceSchema got the schema from a lister
SchemaResolved(made) ==
    \E i \in 1..Len(made) :
        /\ made[i][1] \in {"apiResourceSchemaLister.Get",
                            "globalAPIResourceSchemaLister.Get"}
        /\ made[i][2] = "ok"

\* among the accesses made is no call of queue.Add
NoQueueAdd(made) == \A i \in 1..Len(made) : made[i][1] # "queue.Add"

\* C31: a CRD informer event for a resource definition outside
\* system:bound-crds makes no access and leaves the deleted-CRD tracker and
\* the queue as they were; the handler of an event for a definition of
\* system:bound-crds that lacks the schema-cluster or the schema-name
\* annotation, or whose schema getAPIResourceSchema has not got from a
\* lister, calls queue.Add for no key and leaves the queue as it was.
C31_ForeignOrUnmappedCRDEnqueuesNothing ==
    [][CRDHandlerStep =>
          \E running \in {handlers'[CRDListener] # NoHandler} :
          \E obj \in {IF running THEN handlers'[CRDListener].obj ELSE hlog'[1][2]} :
          \E made \in {IF running THEN handlers'[CRDListener].calls ELSE Tail(hlog')} :
              /\ OutsideBoundCRDs(Unwrapped(obj)) =>
                     /\ deletedCRDTracker' = deletedCRDTracker
                     /\ queue' = queue
                     /\ ~running
                     /\ made = <<>>
              /\ (\/ Unwrapped(obj).schemaCluster = ""
                  \/ Unwrapped(obj).schemaName = ""
                  \/ ~SchemaResolved(made)) =>
                     /\ queue' = queue
                     /\ NoQueueAdd(made)]_vars

\* the delete of n3, a definition of cluster c2, made no call and left n3
\* out of the tracker, while schema c1|s, which n3's annotations name, and
\* export e, which references it, were cached
C31_Witness ==
    /\ LastHandler("DeleteFunc")
    /\ LastObj = N3
    /\ Len(hlog) = 1
    /\ N3.name \notin deletedCRDTracker
    /\ S1 \in localSchemas
    /\ E1 \in localExports

\* the goroutine of worker w has ended, or was never started
Terminated(w) == pc[w] \in {"off", "exited"}

\* worker w leaves its loop in this step: from Get returning the quit flag
\* on the shut-down, drained queue while it holds no key, or from
\* wait.UntilWithContext finding the context done before the first call
ExitsThroughQuit(w) ==
    \/ /\ pc[w] = "get"
       /\ ctxDone
       /\ queue.shuttingDown
       /\ queue.items = <<>>
       /\ key[w] = NoKey
       /\ key[w] \notin queue.processing
    \/ pc[w] = "until" /\ ctxDone

\* worker w, inside process or past it, goes on to the queue call and the
\* deferred Done for its key and holds no key afterwards
FinishesKey(w) ==
    /\ pc[w] = "process" => pc'[w] \in {"process", "done"}
    /\ pc[w] = "done" =>
           \/ pc'[w] = "done"
           \/ /\ pc'[w] = "get"
              /\ calls'[w][Len(calls'[w])] = "Done"
              /\ key[w] \notin queue'.processing

\* C32: once the context is cancelled and the queue shut down, every
\* started worker eventually ends; a worker ends only through Get returning
\* the quit flag (or through wait.UntilWithContext seeing the context done),
\* never while it holds a key; a worker inside process goes on to Done for
\* that key; and a worker that has ended is not started again.
C32_WorkersTerminateAfterShutDown ==
    /\ \A w \in Workers : (ctxDone /\ queue.shuttingDown) ~> Terminated(w)
    /\ [][\A w \in Workers :
              /\ pc[w] = "exited" => pc'[w] = "exited"
              /\ (pc[w] # "exited" /\ pc'[w] = "exited") => ExitsThroughQuit(w)
              /\ FinishesKey(w)]_vars

\* the queue is shut down and both workers have ended, one of them after
\* the queue call and the Done for a key, and no key is left in processing
C32_Witness ==
    /\ ctxDone
    /\ queue.shuttingDown
    /\ \A w \in Workers : pc[w] = "exited"
    /\ \E w \in Workers : Len(calls[w]) = 2 /\ calls[w][2] = "Done"
    /\ queue.processing = {}

-----------------------------------------------------------------------------
(* Claims about the extra-annotation sync *)

IsPrefixed(k) == HasPrefix(k, AnnotationAPIExportExtraKeyPrefix)

\* the annotations of a whose key has the prefix, and the others
Prefixed(a) == [k \in {x \in DOMAIN a : IsPrefixed(x)} |-> a[k]]
NotPrefixed(a) == [k \in {x \in DOMAIN a : ~IsPrefixed(x)} |-> a[k]]

\* two annotation maps with the same keys and values
SameMap(a, b) == DOMAIN a = DOMAIN b /\ \A k \in DOMAIN a : a[k] = b[k]

SameExport(a, b) == a.exists = b.exists /\ SameMap(a.annotations, b.annotations)

SameBinding(a, b) ==
    /\ a.exists = b.exists
    /\ a.hasExportRef = b.hasExportRef
    /\ a.other = b.other
    /\ SameMap(a.annotations, b.annotations)

\* the patch sets no key and removes none
SetsAndRemovesNothing(patch) == DOMAIN patch.set = {} /\ patch.remove = {}

Key_a == AnnotationAPIExportExtraKeyPrefix \o <<"a">>
Key_NoSlash == SubSeq(AnnotationAPIExportExtraKeyPrefix, 1,
                      Len(AnnotationAPIExportExtraKeyPrefix) - 1)

\* hlog holds a patch computed by syncExtraAnnotationPatch and applied
PatchWasApplied == hlog # <<>> /\ hlog[1][1] \in {"ApplyMergePatch", "again"}
PatchExport == hlog[1][2].annotations
PatchBefore == hlog[1][3]
PatchMade == hlog[1][4]

\* C15: for every pair of annotation maps of an export and a binding, the
\* patch syncExtraAnnotationPatch computes sets every prefixed key of the
\* export that the binding lacks or holds with another value to the
\* export's value and removes every prefixed key of the binding that the
\* export lacks; once the patch is applied, the binding's prefixed
\* annotations are the export's, keys and values.
C15_PatchMakesPrefixedAnnotationsEqual ==
    PatchWasApplied =>
        /\ \A k \in DOMAIN Prefixed(PatchExport) :
              (k \notin DOMAIN PatchBefore.annotations
               \/ PatchBefore.annotations[k] # PatchExport[k])
              => /\ k \in DOMAIN PatchMade.set
                 /\ PatchMade.set[k] = PatchExport[k]
        /\ \A k \in DOMAIN Prefixed(PatchBefore.annotations) :
              k \notin DOMAIN PatchExport => k \in PatchMade.remove
        /\ SameMap(Prefixed(annBinding.annotations), Prefixed(PatchExport))

\* one prefixed key changed from 1 to 2, the other removed
C15_Witness ==
    /\ PatchWasApplied
    /\ SameMap(PatchExport, Key_a :> "2")
    /\ SameMap(PatchBefore.annotations,
               (Key_a :> "1") @@ (AnnotationAPIExportExtraKeyPrefix :> "1"))
    /\ SameMap(annBinding.annotations, Key_a :> "2")

\* C17: for every pair of annotation maps of an export and a binding, every
\* key the patch of syncExtraAnnotationPatch sets or removes has the
\* prefix; once the patch is applied, the binding's annotations without the
\* prefix and every other field of the binding are as they were.
C17_OnlyPrefixedAnnotationsTouched ==
    PatchWasApplied =>
        /\ \A k \in DOMAIN PatchMade.set \cup PatchMade.remove : IsPrefixed(k)
        /\ SameMap(NotPrefixed(annBinding.annotations),
                   NotPrefixed(PatchBefore.annotations))
        /\ annBinding.other = PatchBefore.other
        /\ annBinding.hasExportRef = PatchBefore.hasExportRef
        /\ annBinding.exists = PatchBefore.exists

\* extra.api.kcp.io, without the slash, differs on export and binding and
\* is left alone
C17_Witness ==
    /\ PatchWasApplied
    /\ SameMap(PatchExport, (Key_a :> "2") @@ (Key_NoSlash :> "2"))
    /\ SameMap(PatchBefore.annotations, Key_NoSlash :> "1")
    /\ SameMap(annBinding.annotations, (Key_a :> "2") @@ (Key_NoSlash :> "1"))

\* hlog holds a Patch call the API server applied: the export and the
\* binding process had read, the patch, the binding stored before and after
PatchWasSent == hlog # <<>> /\ hlog[1][1] = "Patch"
SentExport == hlog[1][2]
SentBinding == hlog[1][3]
SentPatch == hlog[1][4]
SentBefore == hlog[1][5]
SentAfter == hlog[1][6]

\* C16: when the API server has applied the patch of a process call to the
\* binding the call had read, the patch computed again for the same export
\* and the patched binding sets and removes nothing; a process call makes
\* the Patch call only with the patch syncExtraAnnotationPatch computed for
\* what it read, and only when that patch sets or removes something.
C16_SecondPatchIsEmptyAndNotSent ==
    /\ (PatchWasSent /\ SameBinding(SentBefore, SentBinding)) =>
           SetsAndRemovesNothing(
               syncExtraAnnotationPatch(SentExport.annotations, SentAfter.annotations))
    /\ PatchWasSent => ~SetsAndRemovesNothing(SentPatch)
    /\ \E f \in {inflight[AnnotatedBinding]} :
           f.pc = "Patch" =>
               /\ ~SetsAndRemovesNothing(f.patch)
               /\ \E p \in {syncExtraAnnotationPatch(f.export.annotations,
                                                     f.binding.annotations)} :
                      /\ SameMap(p.set, f.patch.set)
                      /\ p.remove = f.patch.remove

\* after a Patch call, a second process call read the patched binding,
\* found the export, computed a patch that sets and removes nothing and
\* returned without a Patch call
C16_Witness ==
    /\ PatchWasSent
    /\ SameBinding(annBinding, SentAfter)
    /\ \E f \in {inflight[AnnotatedBinding]} :
           /\ f.pc = "queueCall"
           /\ f.got = "ok"
           /\ f.export.exists
           /\ ~f.err
           /\ SetsAndRemovesNothing(f.patch)
           /\ SameBinding(f.binding, SentAfter)
           /\ DOMAIN Prefixed(f.export.annotations) # {}

\* C18: no step of the extra-annotation controller, its informers or its
\* listeners changes the export the API server stores; when the API server
\* applies a Patch call, every prefixed key of the stored binding that the
\* binding process read had and the export it read lacks is removed from
\* the binding and is not put on the export.
C18_ExportNeverWritten ==
    [][/\ ~SameExport(annExport', annExport) => handlerEvents' < handlerEvents
       /\ \E f \in {inflight[AnnotatedBinding]},
             g \in {inflight'[AnnotatedBinding]} :
             (f.pc = "Patch" /\ g.pc = "queueCall" /\ ~g.err) =>
                 \A k \in DOMAIN Prefixed(annBinding.annotations) :
                     (k \in DOMAIN f.binding.annotations
                      /\ k \notin DOMAIN f.export.annotations) =>
                         /\ k \notin DOMAIN annBinding'.annotations
                         /\ k \in DOMAIN annExport'.annotations
                                => k \in DOMAIN annExport.annotations]_vars

\* a Patch call removed prefixed keys that the binding alone had; the
\* export is there and has none of them
C18_Witness ==
    /\ PatchWasSent
    /\ SentPatch.remove # {}
    /\ annExport.exists
    /\ \A k \in SentPatch.remove :
           /\ k \in DOMAIN SentBefore.annotations
           /\ k \notin DOMAIN annBinding.annotations
           /\ k \notin DOMAIN annExport.annotations

\* a process call that found the binding gone, or without an export
\* reference, or the export not in the local export index, returns without
\* a patch and without an error
NothingToSyncIsNoError ==
    \E f \in {inflight[AnnotatedBinding]} :
        (/\ f.pc \notin {"idle", "listerGet"}
         /\ \/ f.got = "NotFound"
            \/ f.got = "ok" /\ ~f.binding.hasExportRef) =>
            /\ f.pc \in {"queueCall", "Done"}
            /\ ~f.err
            /\ SetsAndRemovesNothing(f.patch)

\* the export informer applies the delete of the export
ExportDeleteApplied ==
    /\ watchEvents[ExportListener("local")] # <<>>
    /\ Head(watchEvents[ExportListener("local")])[1] = "Deleted"
    /\ watchEvents'[ExportListener("local")] = Tail(watchEvents[ExportListener("local")])

\* the delete of the export is handed to no handler and adds no key
NoHandlerOnExportDelete ==
    ExportDeleteApplied => notifications' = notifications /\ queue' = queue

\* the step changes the prefixed annotations of the binding the API server
\* stores, and nobody from outside made it
PrefixedAnnotationsWritten ==
    /\ handlerEvents' = handlerEvents
    /\ ~SameMap(Prefixed(annBinding'.annotations), Prefixed(annBinding.annotations))

\* C30 as stated: a process call that finds the binding gone, the binding
\* without an export reference or the export not in the local export index
\* makes no Patch call and returns no error; the delete of the export is
\* handed to no handler; once the export is deleted, no step of the
\* controller changes the binding's prefixed annotations.
C30_DeletedExportLeavesAnnotations ==
    /\ []NothingToSyncIsNoError
    /\ [][/\ NoHandlerOnExportDelete
          /\ ~annExport.exists => ~PrefixedAnnotationsWritten]_vars

\* C30: a process call that finds the binding gone, the binding without an
\* export reference or the export not in the local export index makes no
\* Patch call and returns no error; the delete of the export is handed to
\* no handler and adds no key; the binding's prefixed annotations are
\* changed only by the Patch call of a process call that had found the
\* export in the index, which it may make after the export was deleted.
C30_NothingToSyncIsNoError ==
    /\ []NothingToSyncIsNoError
    /\ [][/\ NoHandlerOnExportDelete
          /\ PrefixedAnnotationsWritten =>
                \E f \in {inflight[AnnotatedBinding]} :
                    f.pc = "Patch" /\ f.got = "ok" /\ f.export.exists]_vars

\* the export is deleted, the index has dropped it, and a process call for
\* the binding, which has prefixed annotations, found no export and is
\* about to return
C30_Witness ==
    /\ ~annExport.exists
    /\ ~annExportLister.exists
    /\ DOMAIN Prefixed(annBinding.annotations) # {}
    /\ \E f \in {inflight[AnnotatedBinding]} :
           /\ f.pc = "queueCall"
           /\ f.got = "NotFound"
           /\ f.binding.exists
           /\ ~f.err

-----------------------------------------------------------------------------
(* Claims about the APIBinding reconcile *)

\* the definition of schema x is stored in system:bound-crds
DefinitionStored(stored, x) == \E c \in stored : c.crd = BoundCRD(x, TRUE).crd

\* C5 as stated: when DeleteFunc has been called for the delete of a
\* resource definition of system:bound-crds, plain or as a tombstone, its
\* first access added the name to the deleted-CRD tracker and every
\* queue.Add came after it; and a process call that took a key this
\* DeleteFunc added finds the name in the tracker when reconcile looks it
\* up for the schema of that definition.
C5_TrackerAddBeforeEnqueue ==
    /\ (LastHandler("DeleteFunc") /\ crdFilterFunc(Unwrapped(LastObj))) =>
           /\ Len(hlog) >= 2
           /\ hlog[2][1] = "deletedCRDTracker.Add"
           /\ hlog[2][2] = Unwrapped(LastObj).name
    /\ \A b \in DOMAIN inflight :
           \E f \in {inflight[b]} :
               (f.pc = "deletedCRDTracker.Has" /\ f.deleted = BoundCRDName(f.cur)) =>
                   BoundCRDName(f.cur) \in deletedCRDTracker

\* C19: no step of the APIBinding controller, its informers, its listeners
\* or the API server's establishing takes a resource definition out of
\* system:bound-crds or a binding out of the API server: every definition
\* stored before the step is stored after it.
C19_ProcessDeletesNothing ==
    [][handlerEvents' = handlerEvents =>
          /\ \A c \in boundCRDs : \E d \in boundCRDs' : d.crd = c.crd
          /\ DOMAIN apiBindings' = DOMAIN apiBindings]_vars

\* the export of b1 is gone from the index, reconcile has marked b1
\* APIExportNotFound and emptied its boundResources, and the bound CRD of
\* schema s is still stored
C19_Witness ==
    /\ E1 \notin localExports
    /\ apiBindings[B1].exportValid = MarkFalse("APIExportNotFound")
    /\ apiBindings[B1].boundResources = {}
    /\ BoundCRD(S1, TRUE) \in boundCRDs

\* C20 as stated: no two bindings of one cluster have the same
\* (group, resource) in status.boundResources.
C20_NoTwoBindingsBindOneResource ==
    \A b1 \in DOMAIN apiBindings, b2 \in DOMAIN apiBindings :
        (b1 # b2 /\ b1.cluster = b2.cluster) =>
            \A x \in apiBindings[b1].boundResources,
               y \in apiBindings[b2].boundResources :
                GroupResource(x) # GroupResource(y)

\* C21 as stated: every entry of status.boundResources of a binding with
\* phase Bound has its resource definition, with the schema annotations of
\* the entry, in system:bound-crds.
C21_BoundResourcesHaveCRDs ==
    \A b \in DOMAIN apiBindings :
        apiBindings[b].phase = "Bound" =>
            \A x \in apiBindings[b].boundResources : DefinitionStored(boundCRDs, x)

\* the schemas a process call holds as bound: those collected so far while
\* reconcile runs, status.boundResources once reconcile has rebuilt it
BoundByReconcile(f) ==
    IF f.pc \in {"idle", "listerGet"} THEN {}
    ELSE IF f.pc \in {"commit", "queueCall", "Done"}
    THEN IF f.export = "ok" THEN f.status.boundResources ELSE {}
    ELSE f.established

\* reconcile is at the look into the tracker for a schema for which getCRD
\* returned an established definition with the schema's annotations, and
\* the name is not in the tracker
FoundEstablished(f) ==
    /\ f.pc = "deletedCRDTracker.Has"
    /\ BoundCRDName(f.cur) \notin deletedCRDTracker
    /\ \E c \in f.crd : c.established /\ c.crd = BoundCRD(f.cur, TRUE).crd

\* C21: reconcile counts a schema as bound only at the step where getCRD
\* has returned an established definition of its bound-CRD name with its
\* schema annotations and the name is not in the deleted-CRD tracker, and
\* commit writes to status.boundResources nothing but the schemas so
\* counted; a definition deleted from outside stays in the entries of a
\* Bound binding until a reconcile commits.
C21_BoundResourcesWereFoundEstablished ==
    [][\A b \in DOMAIN inflight :
          \E f \in {inflight[b]}, g \in {inflight'[b]} :
              /\ BoundByReconcile(g) \subseteq
                     BoundByReconcile(f)
                         \cup (IF FoundEstablished(f) THEN {f.cur} ELSE {})
              /\ apiBindings'[b].boundResources \subseteq
                     apiBindings[b].boundResources \cup BoundByReconcile(f)]_vars

\* the bound CRD was deleted from outside and b1 has created it again and
\* waits for it to be established; the process call of b3 found the new
\* definition established and returns b3 as Bound to schema s
C21_Witness ==
    /\ handlerEvents = 0
    /\ apiBindings[B1].phase = "Binding"
    /\ BoundCRD(S1, TRUE) \in boundCRDs
    /\ \E f \in {inflight[B3]} :
           /\ f.pc = "queueCall"
           /\ f.export = "ok"
           /\ f.status.phase = "Bound"
           /\ f.status.boundResources = {S1}

C24_SecondPassWritesNothing ==
    \A b \in DOMAIN lastPass :
        (/\ lastPass[b] # NoPass
         /\ lastPass[b] = Stored(b)) =>
            inflight[b].pc \notin {"createCRD", "commit"}

\* the queue is empty, no process call is under way, and every binding is
\* Bound or carries a condition that says why it is not
Converged ==
    /\ queue.items = <<>>
    /\ queue.dirty = {}
    /\ queue.processing = {}
    /\ queue.waitingForAdd = {}
    /\ \A b \in DOMAIN apiBindings :
           /\ inflight[b].pc = "idle"
           /\ \/ apiBindings[b].phase = "Bound"
              \/ apiBindings[b].exportValid.status = "False"
              \/ apiBindings[b].upToDate.status = "False"

C27_ExportNotFoundIsTerminal ==
    /\ [](\A b \in DOMAIN inflight :
             \E f \in {inflight[b]} :
                 (f.pc \in {"commit", "queueCall", "Done"} /\ f.export = "NotFound") =>
                     /\ f.status.exportValid = MarkFalse("APIExportNotFound")
                     /\ f.status.boundResources = {}
                     /\ f.status.phase = f.old.phase
                     /\ ~f.requeue
                     /\ ~f.err)
    /\ [][\A b \in DOMAIN inflight :
             \E f \in {inflight[b]}, g \in {inflight'[b]} :
                 /\ (/\ g.pc \in {"commit", "queueCall"}
                     /\ f.pc \notin {"commit", "queueCall"}
                     /\ g.export = "NotFound") =>
                        /\ f.pc = "getAPIExportGlobal"
                        /\ f.of = b
                 /\ (/\ f.pc \in {"commit", "queueCall", "Done"}
                     /\ f.export = "NotFound"
                     /\ handlerEvents' = handlerEvents) =>
                        \A c \in boundCRDs : \E d \in boundCRDs' : d.crd = c.crd
                 /\ (/\ f.pc = "queueCall"
                     /\ g.pc = "Done"
                     /\ f.export = "NotFound"
                     /\ ~f.commitErr) => queue' = Forget(queue, KeyOf(b))]_vars

\* the export of b1 is in neither index; reconcile marked the bound b1,
\* commit stored it, the key was forgotten and is nowhere in the queue
C27_Witness ==
    /\ BoundCRD(S1, TRUE) \in boundCRDs
    /\ apiBindings[B1].exportValid = MarkFalse("APIExportNotFound")
    /\ \E f \in {inflight[B1]} :
           /\ f.pc = "Done"
           /\ f.export = "NotFound"
           /\ f.old.boundResources = {S1}
           /\ ~f.commitErr
    /\ KeyOf(B1) \notin queue.waitingForAdd
    /\ KeyOf(B1) \notin queue.dirty

=============================================================================
